---- MODULE Spec2Model ----
(***************************************************************************)
(* Model of the two maintenance scripts of cm-oauth-setup:                 *)
(*   - change_modify.py: the Patch Applier (advanced_apply_patch and the   *)
(*     orchestrating main());                                              *)
(*   - compliance-frontend/public/PYTHON.py: the Layout Fixer (patch_html  *)
(*     and its main()).                                                    *)
(* Text handled by the Patch Applier is a sequence of one-character        *)
(* strings, so that find/strip/split/regex act on it as Python does.       *)
(* Text handled by the Layout Fixer is a sequence of lexemes (a tag, a     *)
(* marker comment, a run of other text), the units its regexes look for.   *)
(***************************************************************************)
EXTENDS Integers, Sequences, FiniteSets, TLC

\* ------------------------------------------------------------------ bounds
MaxContentLen == 4
MaxSearchLen == 3
MaxReplaceLen == 1
MaxApplications == 2

\* ------------------------------------------------------- characters, text
NL == "\n"
SP == " "
TAB == "\t"
\* the characters str.strip(), str.split() and the regex class \s treat as blank
WS == {SP, TAB, NL}
\* the characters of the regex class [ \t]
BlankTab == {SP, TAB}
\* the characters the inputs are drawn from
Chars == {"a", "b", SP, NL}

Str(n) == UNION {[1..k -> Chars] : k \in 0..n}

Min(S) == CHOOSE x \in S : \A y \in S : x <= y
Max(S) == CHOOSE x \in S : \A y \in S : x >= y

\* s[i:j] of Python, 0-based, i <= j within the text
Slice(s, i, j) == SubSeq(s, i + 1, j)

RECURSIVE LStrip(_)
LStrip(s) == IF s # <<>> /\ Head(s) \in WS THEN LStrip(Tail(s)) ELSE s

RECURSIVE RStrip(_)
RStrip(s) == IF s # <<>> /\ s[Len(s)] \in WS
             THEN RStrip(SubSeq(s, 1, Len(s) - 1)) ELSE s

Strip(s) == RStrip(LStrip(s))

\* s occurs in c at 0-based offset i
StartsAt(c, s, i) == i + Len(s) <= Len(c) /\ SubSeq(c, i + 1, i + Len(s)) = s

\* c.find(s): the least offset of s in c, -1 when there is none
Find(c, s) ==
    LET hits == {i \in 0..Len(c) : StartsAt(c, s, i)}
    IN IF hits = {} THEN -1 ELSE Min(hits)

\* c.find(s, from)
FindFrom(c, s, from) ==
    LET hits == {i \in from..Len(c) : StartsAt(c, s, i)}
    IN IF hits = {} THEN -1 ELSE Min(hits)

\* c.rfind(s, from): the greatest offset >= from; a negative from counts
\* from the end of the text, as Python slices do
RFindFrom(c, s, from) ==
    LET lo == IF from < 0 THEN Max({0, Len(c) + from}) ELSE from
        hits == {i \in lo..Len(c) : StartsAt(c, s, i)}
    IN IF hits = {} THEN -1 ELSE Max(hits)

\* s in c
Contains(c, s) == Find(c, s) # -1

\* s.split('\n'): always at least one line
RECURSIVE SplitNL(_)
SplitNL(s) ==
    LET nls == {i \in 1..Len(s) : s[i] = NL}
    IN IF nls = {} THEN <<s>>
       ELSE LET i == Min(nls)
            IN <<SubSeq(s, 1, i - 1)>> \o SplitNL(SubSeq(s, i + 1, Len(s)))

\* '\n'.join(lines)
RECURSIVE JoinNL(_)
JoinNL(lines) ==
    IF lines = <<>> THEN <<>>
    ELSE IF Len(lines) = 1 THEN lines[1]
    ELSE lines[1] \o <<NL>> \o JoinNL(Tail(lines))

\* the elements of a sequence that satisfy Test, in order
RECURSIVE SelectNonBlank(_)
SelectNonBlank(lines) ==
    IF lines = <<>> THEN <<>>
    ELSE IF Strip(Head(lines)) # <<>>
         THEN <<Strip(Head(lines))>> \o SelectNonBlank(Tail(lines))
         ELSE SelectNonBlank(Tail(lines))

\* len(line) - len(line.lstrip())
Leading(line) == Len(line) - Len(LStrip(line))

Spaces(n) == [i \in 1..n |-> SP]

\* re.sub(r'\s+', ' ', s)
RECURSIVE Collapse(_)
Collapse(s) ==
    IF s = <<>> THEN <<>>
    ELSE IF Head(s) \in WS THEN <<SP>> \o Collapse(LStrip(s))
    ELSE <<Head(s)>> \o Collapse(Tail(s))

\* s.split(): the maximal runs of non-blank characters
RECURSIVE SplitWS(_)
SplitWS(s) ==
    LET t == LStrip(s)
        ws == {i \in 1..Len(t) : t[i] \in WS}
    IN IF t = <<>> THEN <<>>
       ELSE IF ws = {} THEN <<t>>
       ELSE <<SubSeq(t, 1, Min(ws) - 1)>> \o SplitWS(SubSeq(t, Min(ws), Len(t)))

\* ------------------------------------------------ make_fuzzy_pattern, re
\* The regex make_fuzzy_pattern builds is a sequence of items: a literal
\* character, \s+, \s* or [ \t]*.
Lit(ch) == [k |-> "lit", c |-> ch]
SPlus == [k |-> "s+", c |-> ""]
SStar == [k |-> "s*", c |-> ""]
BTStar == [k |-> "bt*", c |-> ""]

\* re.escape(stripped).replace('\ ', '\s+')
RECURSIVE EscapeLine(_)
EscapeLine(s) ==
    IF s = <<>> THEN <<>>
    ELSE (IF Head(s) = SP THEN <<SPlus>> ELSE <<Lit(Head(s))>>)
         \o EscapeLine(Tail(s))

LinePattern(line) ==
    LET stripped == Strip(line)
    IN IF stripped = <<>> THEN <<SStar>> ELSE <<BTStar>> \o EscapeLine(stripped)

RECURSIVE JoinPatterns(_)
JoinPatterns(lines) ==
    IF Len(lines) = 1 THEN LinePattern(lines[1])
    ELSE LinePattern(lines[1]) \o <<Lit(NL)>> \o JoinPatterns(Tail(lines))

make_fuzzy_pattern(search_text) == JoinPatterns(SplitNL(Strip(search_text)))

ItemClass(item) == IF item.k = "bt*" THEN BlankTab ELSE WS
ItemMin(item) == IF item.k = "s+" THEN 1 ELSE 0

\* the end of the longest run of characters of class K that starts at offset p
RunEnd(c, p, K) ==
    Max({q \in p..Len(c) : \A t \in (p + 1)..q : c[t] \in K})

\* The backtracking matcher of re: the offset where the match of items k..
\* that starts at offset p ends, -1 when there is none.  A repetition is
\* greedy: it takes the longest run first and gives characters back one at a
\* time.
RECURSIVE MatchFrom(_, _, _, _), TryLengths(_, _, _, _, _)
MatchFrom(pat, k, c, p) ==
    IF k > Len(pat) THEN p
    ELSE IF pat[k].k = "lit"
         THEN IF p < Len(c) /\ c[p + 1] = pat[k].c
              THEN MatchFrom(pat, k + 1, c, p + 1) ELSE -1
         ELSE TryLengths(pat, k, c, RunEnd(c, p, ItemClass(pat[k])),
                         p + ItemMin(pat[k]))
TryLengths(pat, k, c, q, lo) ==
    IF q < lo THEN -1
    ELSE LET r == MatchFrom(pat, k + 1, c, q)
         IN IF r # -1 THEN r ELSE TryLengths(pat, k, c, q - 1, lo)

\* re.search(pattern, content): <<m.start(), m.end()>> of the leftmost match,
\* <<-1, -1>> when there is none
re_search(pat, c) ==
    LET starts == {i \in 0..Len(c) : MatchFrom(pat, 1, c, i) # -1}
    IN IF starts = {} THEN <<-1, -1>>
       ELSE <<Min(starts), MatchFrom(pat, 1, c, Min(starts))>>

\* ------------------------------------------------- advanced_apply_patch
\* program constants of advanced_apply_patch
UniquePrefix == 3
AlreadyThreshold == 2
TokenMinLen == 3

Modes == {"replace", "insert_after", "insert_before"}

\* the stripped non-blank lines of the replacement that are no stripped
\* line of the search text
RECURSIVE UniqueLines(_, _)
UniqueLines(lines, search_lines_set) ==
    IF lines = <<>> THEN <<>>
    ELSE LET ls == Strip(Head(lines))
         IN (IF ls # <<>> /\ ls \notin search_lines_set THEN <<ls>> ELSE <<>>)
            \o UniqueLines(Tail(lines), search_lines_set)

replace_unique_lines(search_stripped, replace_stripped) ==
    LET sl == SelectNonBlank(SplitNL(search_stripped))
    IN UniqueLines(SplitNL(replace_stripped), {sl[i] : i \in DOMAIN sl})

AlreadyApplied_anyLine(content, search_stripped, replace_stripped) ==
    LET rul == replace_unique_lines(search_stripped, replace_stripped)
        first == SubSeq(rul, 1, Min({UniquePrefix, Len(rul)}))
        already_count == Cardinality({i \in DOMAIN first : Contains(content, first[i])})
    IN rul # <<>> /\ already_count >= 1

\* the 'already applied' test
AlreadyApplied(content, search_stripped, replace_stripped) ==
    LET rul == replace_unique_lines(search_stripped, replace_stripped)
        first == SubSeq(rul, 1, Min({UniquePrefix, Len(rul)}))
        already_count == Cardinality({i \in DOMAIN first : Contains(content, first[i])})
    IN rul # <<>> /\ already_count >= Min({AlreadyThreshold, Len(first)})

\* the inner while loop of the line-stripped strategy: from search line si
\* and content line j (both 1-based here) on
RECURSIVE ScanLines(_, _, _, _, _)
ScanLines(content_lines, search_lines, si, j, matched_indices) ==
    IF si > Len(search_lines) \/ j > Len(content_lines)
    THEN [si |-> si, matched |-> matched_indices]
    ELSE LET cl == Strip(content_lines[j])
             sl == search_lines[si]
         IN IF cl = <<>> /\ sl # <<>>
            THEN ScanLines(content_lines, search_lines, si, j + 1, matched_indices)
            ELSE IF cl = sl \/ Contains(cl, sl)
            THEN IF Contains(cl, sl)
                 THEN ScanLines(content_lines, search_lines, si + 1, j + 1,
                                Append(matched_indices, j))
                 ELSE ScanLines(content_lines, search_lines, si, j + 1,
                                matched_indices)
            ELSE [si |-> si, matched |-> matched_indices]

\* the line numbers matched from the first start line whose scan takes every
\* search line; <<>> when no start line does
LineStrippedMatch(content, search_stripped) ==
    LET search_lines == SelectNonBlank(SplitNL(search_stripped))
        content_lines == SplitNL(content)
        scan(i) == ScanLines(content_lines, search_lines, 1, i, <<>>)
        good == {i \in DOMAIN content_lines :
                    /\ Contains(Strip(content_lines[i]), search_lines[1])
                    /\ scan(i).si = Len(search_lines) + 1
                    /\ scan(i).matched # <<>>}
    IN IF search_lines = <<>> \/ good = {} THEN <<>> ELSE scan(Min(good)).matched

\* the replacement lines, re-indented to the first matched line
indented_replace(replace_stripped, base_indent) ==
    LET replace_lines == SplitNL(replace_stripped)
        min_rl == Min({Leading(replace_lines[x]) :
                        x \in {y \in DOMAIN replace_lines : Strip(replace_lines[y]) # <<>>}})
    IN [i \in DOMAIN replace_lines |->
          IF Strip(replace_lines[i]) = <<>> THEN <<>>
          ELSE base_indent \o Spaces(Leading(replace_lines[i]) - min_rl)
               \o Strip(replace_lines[i])]

LineStrippedApply(content, replace_stripped, matched_indices) ==
    LET content_lines == SplitNL(content)
        first_line == content_lines[matched_indices[1]]
        base_indent == SubSeq(first_line, 1, Leading(first_line))
        start_line == matched_indices[1]
        end_line == matched_indices[Len(matched_indices)]
    IN JoinNL(SubSeq(content_lines, 1, start_line - 1)
              \o indented_replace(replace_stripped, base_indent)
              \o SubSeq(content_lines, end_line + 1, Len(content_lines)))

\* the tokens of the search text longer than TokenMinLen
RECURSIVE LongTokens(_)
LongTokens(toks) ==
    IF toks = <<>> THEN <<>>
    ELSE (IF Len(Head(toks)) > TokenMinLen THEN <<Head(toks)>> ELSE <<>>)
         \o LongTokens(Tail(toks))

\* the collapsed-whitespace strategy: the span <<first_idx, eol>> it
\* replaces, <<-1, -1>> when it does not apply
CollapsedSpan(content, search_stripped) ==
    LET idx == Find(Collapse(content), Collapse(search_stripped))
        tokens == LongTokens(SplitWS(search_stripped))
        first_token == tokens[1]
        last_token == tokens[Len(tokens)]
        first_idx == Find(content, first_token)
        last_idx == RFindFrom(content, last_token, first_idx)
        end_pos == last_idx + Len(last_token)
        eol == IF FindFrom(content, <<NL>>, end_pos) = -1 THEN Len(content)
               ELSE FindFrom(content, <<NL>>, end_pos)
    IN IF idx # -1 /\ tokens # <<>> /\ first_idx # -1 /\ last_idx # -1
       THEN <<first_idx, eol>> ELSE <<-1, -1>>

\* content[:start] + replace_stripped + content[end:]
Splice(content, start, end, replace_stripped) ==
    Slice(content, 0, start) \o replace_stripped \o Slice(content, end, Len(content))

\* the edit of the exact strategy
ExactApply_shortTail(content, idx, search_stripped, replace_stripped) ==
    Splice(content, idx, Min({Len(content), idx + Len(search_stripped) + 1}),
           replace_stripped)

ExactApply(content, idx, search_stripped, replace_stripped) ==
    Splice(content, idx, idx + Len(search_stripped), replace_stripped)

\* what advanced_apply_patch returns when every strategy failed
FailResult_true(content) == [content |-> content, success |-> TRUE, via |-> "fail"]

FailResult(content) == [content |-> content, success |-> FALSE, via |-> "fail"]

advanced_apply_patch_regexFirst(content, patch) ==
    LET search_stripped == Strip(patch.search)
        replace_stripped == Strip(patch.replace)
        idx == Find(content, search_stripped)
        matched_indices == LineStrippedMatch(content, search_stripped)
        m == re_search(make_fuzzy_pattern(patch.search), content)
        span == CollapsedSpan(content, search_stripped)
    IN IF AlreadyApplied(content, search_stripped, replace_stripped)
       THEN [content |-> content, success |-> TRUE, via |-> "skip"]
       ELSE IF idx # -1
       THEN [content |-> ExactApply(content, idx, search_stripped, replace_stripped),
             success |-> TRUE, via |-> "exact"]
       ELSE IF m[1] # -1
       THEN [content |-> Splice(content, m[1], m[2], replace_stripped),
             success |-> TRUE, via |-> "regex-fuzzy"]
       ELSE IF matched_indices # <<>>
       THEN [content |-> LineStrippedApply(content, replace_stripped, matched_indices),
             success |-> TRUE, via |-> "line-stripped"]
       ELSE IF span[1] # -1
       THEN [content |-> Splice(content, span[1], span[2], replace_stripped),
             success |-> TRUE, via |-> "collapsed"]
       ELSE FailResult(content)

\* advanced_apply_patch(content, patch): the new content, the success flag
\* and the log entry made (SKIP, the OK of one strategy, or FAIL).  The mode
\* of the patch is read and never used.
advanced_apply_patch(content, patch) ==
    LET search_stripped == Strip(patch.search)
        replace_stripped == Strip(patch.replace)
        idx == Find(content, search_stripped)
        matched_indices == LineStrippedMatch(content, search_stripped)
        m == re_search(make_fuzzy_pattern(patch.search), content)
        span == CollapsedSpan(content, search_stripped)
    IN IF AlreadyApplied(content, search_stripped, replace_stripped)
       THEN [content |-> content, success |-> TRUE, via |-> "skip"]
       ELSE IF idx # -1
       THEN [content |-> ExactApply(content, idx, search_stripped, replace_stripped),
             success |-> TRUE, via |-> "exact"]
       ELSE IF matched_indices # <<>>
       THEN [content |-> LineStrippedApply(content, replace_stripped, matched_indices),
             success |-> TRUE, via |-> "line-stripped"]
       ELSE IF m[1] # -1
       THEN [content |-> Splice(content, m[1], m[2], replace_stripped),
             success |-> TRUE, via |-> "regex-fuzzy"]
       ELSE IF span[1] # -1
       THEN [content |-> Splice(content, span[1], span[2], replace_stripped),
             success |-> TRUE, via |-> "collapsed"]
       ELSE FailResult(content)

\* --------------------------------------------------------- fuzzy_find
\* fuzzy_find returns None or (start, end, method)
NotFound == [start |-> -1, end |-> -1, method |-> "none"]

\* the while loop of the stripped-line strategy of fuzzy_find: from search
\* line si and content line j (both 1-based here) on
RECURSIVE FindScan(_, _, _, _, _)
FindScan(content_lines, search_lines, si, j, matches) ==
    IF si > Len(search_lines) \/ j > Len(content_lines)
    THEN [matched |-> TRUE, si |-> si, matches |-> matches]
    ELSE IF Strip(content_lines[j]) = <<>>
    THEN FindScan(content_lines, search_lines, si, j + 1, matches)
    ELSE IF Strip(content_lines[j]) = search_lines[si]
    THEN FindScan(content_lines, search_lines, si + 1, j + 1, Append(matches, j))
    ELSE [matched |-> FALSE, si |-> si, matches |-> matches]

\* sum(len(content_lines[k]) + 1) over the first n lines
RECURSIVE LinesLength(_, _)
LinesLength(content_lines, n) ==
    IF n = 0 THEN 0
    ELSE LinesLength(content_lines, n - 1) + Len(content_lines[n]) + 1

\* the span the stripped-line strategy returns: that of the first start line
\* whose scan takes every search line and whose span ends inside the content
FindByLines(content, search_lines) ==
    LET content_lines == SplitNL(content)
        scan(i) == FindScan(content_lines, search_lines, 1, i, <<>>)
        start_pos(i) == LinesLength(content_lines, scan(i).matches[1] - 1)
        end_pos(i) == LinesLength(content_lines,
                                  scan(i).matches[Len(scan(i).matches)])
        good == {i \in DOMAIN content_lines :
                    /\ Strip(content_lines[i]) = search_lines[1]
                    /\ scan(i).matched
                    /\ scan(i).si = Len(search_lines) + 1
                    /\ end_pos(i) > 0 /\ end_pos(i) <= Len(content)}
    IN IF good = {} THEN NotFound
       ELSE [start |-> start_pos(Min(good)), end |-> end_pos(Min(good)) - 1,
             method |-> "line-stripped"]

FindExact_none(content, search_text) == NotFound

FindExact(content, search_text) ==
    LET idx == Find(content, Strip(search_text))
    IN IF idx # -1
       THEN [start |-> idx, end |-> idx + Len(Strip(search_text)), method |-> "exact"]
       ELSE NotFound

fuzzy_find(content, search_text) ==
    LET exact == FindExact(content, search_text)
        search_lines == SelectNonBlank(SplitNL(Strip(search_text)))
        by_lines == FindByLines(content, search_lines)
        m == re_search(make_fuzzy_pattern(search_text), content)
    IN IF exact # NotFound THEN exact
       ELSE IF search_lines = <<>> THEN NotFound
       ELSE IF by_lines # NotFound THEN by_lines
       ELSE IF m[1] # -1 THEN [start |-> m[1], end |-> m[2], method |-> "regex-fuzzy"]
       ELSE NotFound

\* ------------------------------------------------------------- the state
VARIABLES
    fs,                \* the folder: path -> text of the file, NoFile when absent
    fs0,               \* history: the folder as it was before the run
    bak,               \* path -> text of the .bak copy made in this run, NoFile when none
    targets,           \* the patch tables: a sequence of [path, patches]
    args,              \* the command line of the Layout Fixer: [inp, out]
    pc,                \* position of main()
    fidx,              \* the target file main() is at
    pidx,              \* the patch of that file to attempt next
    patch,             \* the patch handed to advanced_apply_patch
    content,           \* the text threaded through the patches
    original_content,  \* the text read from the file
    counts,            \* Logger.counts
    printed,           \* what Logger.summary printed: the counters and the verdict
    rc,                \* the exit status, NoStatus while running
    calls,             \* history: the calls of advanced_apply_patch / patch_html so far
    events             \* history: the file operations made so far

vars == <<fs, fs0, bak, targets, args, pc, fidx, pidx, patch, content,
          original_content, counts, printed, rc, calls, events>>

NoFile == <<"<no file>">>
NoPatch == [id |-> "", search |-> <<>>, replace |-> <<>>, mode |-> "replace"]
NoArgs == [inp |-> "", out |-> ""]
NoStatus == -1
ZeroCounts == [success |-> 0, skip |-> 0, fail |-> 0, warn |-> 0]
NothingPrinted == [counts |-> ZeroCounts, verdict |-> ""]

\* Logger.ok / Logger.skip / Logger.fail / Logger.warn: the counter each bumps
LogOk(c) == [c EXCEPT !.success = @ + 1]
LogSkip(c) == [c EXCEPT !.skip = @ + 1]
LogFail(c) == [c EXCEPT !.fail = @ + 1]
LogWarn(c) == [c EXCEPT !.warn = @ + 1]

\* the log entry advanced_apply_patch makes for its outcome
LogOutcome(c, via) ==
    IF via = "skip" THEN LogSkip(c)
    ELSE IF via = "fail" THEN LogFail(c)
    ELSE LogOk(c)

CallRecord(before, p, r) ==
    [before |-> before, patch |-> p, after |-> r.content,
     success |-> r.success, via |-> r.via]

\* ------------------------------------- advanced_apply_patch on all inputs
\* Every content and every replace-mode patch within the bounds, the patch
\* applied MaxApplications times in a row to the content it returned.
HarnessIdle ==
    /\ fs = <<>> /\ fs0 = <<>> /\ bak = <<>> /\ targets = <<>>
    /\ args = NoArgs /\ fidx = 0 /\ pidx = 0 /\ events = <<>>
    /\ printed = NothingPrinted /\ rc = NoStatus
    /\ calls = <<>> /\ counts = ZeroCounts /\ pc = "apply"

InitApply ==
    /\ content \in Str(MaxContentLen)
    /\ patch \in [id : {"P"}, search : Str(MaxSearchLen),
                  replace : Str(MaxReplaceLen), mode : {"replace"}]
    /\ original_content = content
    /\ HarnessIdle

ApplyPatch ==
    /\ pc = "apply"
    /\ Len(calls) < MaxApplications
    /\ LET r == advanced_apply_patch(content, patch)
       IN /\ content' = r.content
          /\ calls' = Append(calls, CallRecord(content, patch, r))
          /\ counts' = LogOutcome(counts, r.via)
    /\ UNCHANGED <<fs, fs0, bak, targets, args, pc, fidx, pidx, patch,
                   original_content, printed, rc, events>>

NextApply == ApplyPatch

SpecApply == InitApply /\ [][NextApply]_vars

\* ------------------- advanced_apply_patch on re-indented occurrences
\* The search text is two lines; the content holds those two lines with
\* other indentation, after some text and before some text.
MaxIndent == 2
Bodies == {<<"a">>, <<"b">>}
Before == {<<>>, <<"b">>, <<"b", NL>>}
After == {<<>>, <<"b">>, <<NL, "b">>}
Replacements == {<<"c">>, <<"c", NL, SP, "c">>}

InitIndent ==
    /\ \E l1 \in Bodies, l2 \in Bodies, pre \in Before, post \in After,
          si \in 0..MaxIndent, i1 \in 0..MaxIndent, i2 \in 0..MaxIndent,
          r \in Replacements :
          /\ i2 # si
          /\ content = pre \o Spaces(i1) \o l1 \o <<NL>> \o Spaces(i2) \o l2 \o post
          /\ patch = [id |-> "P", search |-> l1 \o <<NL>> \o Spaces(si) \o l2,
                      replace |-> r, mode |-> "replace"]
    /\ original_content = content
    /\ HarnessIdle

SpecIndent == InitIndent /\ [][NextApply]_vars

\* ------------------------------ advanced_apply_patch on patches of every mode
\* Short contents and patches whose mode is any of the modes apply_patch
\* documents.
MaxModeLen == 3
ModeSearches == {<<"a">>, <<"b">>, <<"a", NL, "b">>}
ModeReplacements == {<<"b">>, <<"c">>}

InitModes ==
    /\ content \in Str(MaxModeLen)
    /\ patch \in [id : {"P"}, search : ModeSearches,
                  replace : ModeReplacements, mode : Modes]
    /\ original_content = content
    /\ HarnessIdle

SpecModes == InitModes /\ [][NextApply]_vars

\* ------------------------ fuzzy_find and advanced_apply_patch side by side
\* Every short content and every short search text, blank ones included: the
\* text is looked up with fuzzy_find, then applied as a patch.
MaxFindLen == 3

InitFind ==
    /\ content \in Str(MaxFindLen)
    /\ patch \in [id : {"P"}, search : Str(MaxSearchLen),
                  replace : Str(MaxReplaceLen), mode : {"replace"}]
    /\ original_content = content
    /\ fs = <<>> /\ fs0 = <<>> /\ bak = <<>> /\ targets = <<>>
    /\ args = NoArgs /\ fidx = 0 /\ pidx = 0 /\ events = <<>>
    /\ printed = NothingPrinted /\ rc = NoStatus
    /\ calls = <<>> /\ counts = ZeroCounts /\ pc = "find"

FuzzyFind ==
    /\ pc = "find"
    /\ calls' = Append(calls, [content |-> content, search_text |-> patch.search,
                               result |-> fuzzy_find(content, patch.search)])
    /\ pc' = "apply"
    /\ UNCHANGED <<fs, fs0, bak, targets, args, fidx, pidx, patch, content,
                   original_content, counts, printed, rc, events>>

NextFind ==
    \/ FuzzyFind
    \/ ApplyPatch

SpecFind == InitFind /\ [][NextFind]_vars

\* ------------------- advanced_apply_patch on replacements of several lines
\* The replacement has up to MaxReplaceLines one-letter lines; the content
\* holds some of the letters, one per line.
MaxReplaceLines == 4
LineLetters == {"a", "b", "c"}
ReplaceTexts ==
    {JoinNL([i \in DOMAIN f |-> <<f[i]>>]) :
        f \in UNION {[1..n -> LineLetters] : n \in 1..MaxReplaceLines}}
AlreadySearches == {<<"a">>, <<"a", NL, "b">>, <<"d">>}
AlreadyContents ==
    {<<>>, <<"a">>, <<"b">>, <<"c">>, <<"a", NL, "b">>, <<"b", NL, "c">>,
     <<"a", NL, "c">>, <<"a", NL, "b", NL, "c">>}

InitAlready ==
    /\ content \in AlreadyContents
    /\ patch \in [id : {"P"}, search : AlreadySearches,
                  replace : ReplaceTexts, mode : {"replace"}]
    /\ original_content = content
    /\ HarnessIdle

SpecAlready == InitAlready /\ [][NextApply]_vars

\* ---------------------- advanced_apply_patch on snippets of two long tokens
\* The search text is two tokens of more than three characters with a
\* separator between them; the content holds the two tokens with a separator
\* of its own, after some text and before some text, or holds only one of them.
TokA == <<"a", "b", "c", "d">>
TokB == <<"e", "f", "g", "h">>
Separators == {<<SP>>, <<NL>>, <<TAB>>, <<NL, SP>>}
CascadeBefore == {<<>>, <<"x", NL>>, TokA \o <<SP, "x", NL>>, <<SP>>}
CascadeAfter == {<<>>, <<NL, "x">>, <<SP, "x">>}
CascadeSearches ==
    {TokA \o sep \o TokB : sep \in Separators}
    \cup {<<"i", "f", SP>> \o TokA \o <<NL>> \o TokB}
CascadeContents ==
    {pre \o TokA \o sep \o TokB \o post :
        pre \in CascadeBefore, sep \in Separators, post \in CascadeAfter}
    \cup {<<"i", "f", NL>> \o TokA \o <<SP>> \o TokB, TokA, TokB \o <<SP>> \o TokA}
CascadeReplacements == {<<"r">>, TokB}

InitCascade ==
    /\ content \in CascadeContents
    /\ patch \in [id : {"P"}, search : CascadeSearches,
                  replace : CascadeReplacements, mode : {"replace"}]
    /\ original_content = content
    /\ HarnessIdle

SpecCascade == InitCascade /\ [][NextApply]_vars

\* ------------------------------------------- main() of the Patch Applier
\* The target files: index.html (phase 1) and the keys of the table
\* get_backend_patches returns, in insertion order (phase 2).
TargetPaths ==
    <<"index.html",
      "netlify/functions/tasks_updatestatus.js",
      "netlify/functions/series_rebuild.js",
      "netlify/functions/tasks_bulkimportcsv.js",
      "netlify/functions/tasks_createone.js">>

Paths == {TargetPaths[i] : i \in DOMAIN TargetPaths}

\* The patch texts of get_ui_patches / get_backend_patches are data; the
\* model draws the tables from short lists over a pool of small patches.
MaxPatches == 2
PA == [id |-> "PA", search |-> <<"a">>, replace |-> <<"b">>, mode |-> "replace"]
PB == [id |-> "PB", search |-> <<"b">>, replace |-> <<"a">>, mode |-> "replace"]
PatchPool == {PA, PB}
PatchLists == UNION {[1..n -> PatchPool] : n \in 1..MaxPatches}
FileContents == {<<"a">>, <<"c">>}

Event(op, path, n, text) == [op |-> op, path |-> path, n |-> n, text |-> text]

InitMain ==
    /\ \E ui \in PatchLists, be \in PatchLists :
          targets = [i \in DOMAIN TargetPaths |->
                       [path |-> TargetPaths[i],
                        patches |-> IF i = 1 THEN ui ELSE be]]
    /\ fs \in [Paths -> FileContents \cup {NoFile}]
    /\ fs0 = fs
    /\ bak = [p \in Paths |-> NoFile]
    /\ args = NoArgs
    /\ pc = "start"
    /\ fidx = 0 /\ pidx = 0
    /\ patch = NoPatch
    /\ content = <<>> /\ original_content = <<>>
    /\ counts = ZeroCounts
    /\ printed = NothingPrinted
    /\ rc = NoStatus
    /\ calls = <<>> /\ events = <<>>

\* select_folder(): the dialog returns a folder, or nothing when cancelled;
\* without a folder main() logs a failure and returns
SelectFolder ==
    /\ pc = "start"
    /\ \E chosen \in BOOLEAN :
          IF chosen
          THEN pc' = "validate" /\ UNCHANGED <<counts, rc>>
          ELSE pc' = "done" /\ counts' = LogFail(counts) /\ rc' = 0
    /\ UNCHANGED <<fs, fs0, bak, targets, args, fidx, pidx, patch, content,
                   original_content, printed, calls, events>>

\* validate_folder(): logs what is missing and always returns True
ValidateFolder ==
    /\ pc = "validate"
    /\ LET has_index == fs[TargetPaths[1]] # NoFile
           missing == {i \in 2..Len(TargetPaths) : fs[TargetPaths[i]] = NoFile}
           c1 == IF has_index THEN counts ELSE LogFail(counts)
       IN counts' = IF missing = {} THEN c1 ELSE LogWarn(LogWarn(c1))
    /\ pc' = "read"
    /\ fidx' = 1
    /\ UNCHANGED <<fs, fs0, bak, targets, args, pidx, patch, content,
                   original_content, printed, rc, calls, events>>

\* the loop moves on to the next target file, or to the summary after the last
MoveOn ==
    IF fidx < Len(targets)
    THEN pc' = "read" /\ fidx' = fidx + 1
    ELSE pc' = "summary" /\ UNCHANGED fidx

\* phase 1: read_file(index_path); a missing file is logged as a failure by
\* read_file and again by main(); the log entries about a missing file are
\* kept in events with the file operations
ReadIndex ==
    /\ pc = "read" /\ fidx = 1
    /\ LET path == targets[fidx].path
       IN IF fs[path] = NoFile
          THEN /\ counts' = LogFail(LogFail(counts))
               /\ events' = events \o <<Event("fail", path, 0, <<>>),
                                        Event("fail", path, 0, <<>>)>>
               /\ MoveOn
               /\ UNCHANGED content
          ELSE /\ content' = fs[path]
               /\ events' = Append(events, Event("read", path, 0, fs[path]))
               /\ pc' = "backup"
               /\ UNCHANGED <<counts, fidx>>
    /\ UNCHANGED <<fs, fs0, bak, targets, args, pidx, patch, original_content,
                   printed, rc, calls>>

\* the log entries "Skipped (file missing): <id>", one per patch of the list
SkipEntries(path, n) == [k \in 1..n |-> Event("skip", path, k, <<>>)]

\* phase 2: a missing backend file is warned about and every patch of it is
\* logged as skipped; a present one is read
ReadBackend_oneSkip ==
    /\ pc = "read" /\ fidx > 1
    /\ LET path == targets[fidx].path
           n == Len(targets[fidx].patches)
       IN IF fs[path] = NoFile
          THEN /\ counts' = LogSkip(LogWarn(counts))
               /\ events' = events \o <<Event("warn", path, 0, <<>>),
                                        Event("skip", path, 1, <<>>)>>
               /\ MoveOn
               /\ UNCHANGED content
          ELSE /\ content' = fs[path]
               /\ events' = Append(events, Event("read", path, 0, fs[path]))
               /\ pc' = "backup"
               /\ UNCHANGED <<counts, fidx>>
    /\ UNCHANGED <<fs, fs0, bak, targets, args, pidx, patch, original_content,
                   printed, rc, calls>>

ReadBackend ==
    /\ pc = "read" /\ fidx > 1
    /\ LET path == targets[fidx].path
           n == Len(targets[fidx].patches)
       IN IF fs[path] = NoFile
          THEN /\ counts' = [LogWarn(counts) EXCEPT !.skip = @ + n]
               /\ events' = events \o <<Event("warn", path, 0, <<>>)>>
                                    \o SkipEntries(path, n)
               /\ MoveOn
               /\ UNCHANGED content
          ELSE /\ content' = fs[path]
               /\ events' = Append(events, Event("read", path, 0, fs[path]))
               /\ pc' = "backup"
               /\ UNCHANGED <<counts, fidx>>
    /\ UNCHANGED <<fs, fs0, bak, targets, args, pidx, patch, original_content,
                   printed, rc, calls>>

\* backup_file(path), then original_content = content
BackupFile_none ==
    /\ pc = "backup"
    /\ original_content' = content
    /\ pidx' = 1
    /\ pc' = "patch"
    /\ UNCHANGED <<fs, fs0, bak, targets, args, fidx, patch, content, counts,
                   printed, rc, calls, events>>

BackupFile ==
    /\ pc = "backup"
    /\ LET path == targets[fidx].path
       IN /\ bak' = [bak EXCEPT ![path] = fs[path]]
          /\ events' = Append(events, Event("backup", path, 0, fs[path]))
    /\ original_content' = content
    /\ pidx' = 1
    /\ pc' = "patch"
    /\ UNCHANGED <<fs, fs0, targets, args, fidx, patch, content, counts,
                   printed, rc, calls>>

\* one turn of "for patch in patches": content, success = advanced_apply_patch(...)
AttemptPatch_writeEach ==
    /\ pc = "patch"
    /\ pidx <= Len(targets[fidx].patches)
    /\ LET path == targets[fidx].path
           p == targets[fidx].patches[pidx]
           r == advanced_apply_patch(content, p)
       IN /\ patch' = p
          /\ content' = r.content
          /\ calls' = Append(calls, CallRecord(content, p, r))
          /\ counts' = LogOutcome(counts, r.via)
          /\ fs' = [fs EXCEPT ![path] = r.content]
          /\ events' = events \o <<Event("patch", path, pidx, r.content),
                                   Event("write", path, 0, r.content)>>
    /\ pidx' = pidx + 1
    /\ UNCHANGED <<fs0, bak, targets, args, pc, fidx, original_content,
                   printed, rc>>

AttemptPatch_abortOnFail ==
    /\ pc = "patch"
    /\ pidx <= Len(targets[fidx].patches)
    /\ LET path == targets[fidx].path
           p == targets[fidx].patches[pidx]
           r == advanced_apply_patch(content, p)
       IN /\ patch' = p
          /\ content' = r.content
          /\ calls' = Append(calls, CallRecord(content, p, r))
          /\ counts' = LogOutcome(counts, r.via)
          /\ events' = Append(events, Event("patch", path, pidx, r.content))
          /\ pc' = IF r.success THEN pc ELSE "summary"
    /\ pidx' = pidx + 1
    /\ UNCHANGED <<fs, fs0, bak, targets, args, fidx, original_content,
                   printed, rc>>

AttemptPatch ==
    /\ pc = "patch"
    /\ pidx <= Len(targets[fidx].patches)
    /\ LET path == targets[fidx].path
           p == targets[fidx].patches[pidx]
           r == advanced_apply_patch(content, p)
       IN /\ patch' = p
          /\ content' = r.content
          /\ calls' = Append(calls, CallRecord(content, p, r))
          /\ counts' = LogOutcome(counts, r.via)
          /\ events' = Append(events, Event("patch", path, pidx, r.content))
    /\ pidx' = pidx + 1
    /\ UNCHANGED <<fs, fs0, bak, targets, args, pc, fidx, original_content,
                   printed, rc>>

\* after the loop: write_file and log.ok when the content changed, log.info
\* when it did not
WriteBack_always ==
    /\ pc = "patch"
    /\ pidx > Len(targets[fidx].patches)
    /\ LET path == targets[fidx].path
       IN /\ fs' = [fs EXCEPT ![path] = content]
          /\ events' = Append(events, Event("write", path, 0, content))
          /\ counts' = LogOk(counts)
    /\ MoveOn
    /\ UNCHANGED <<fs0, bak, targets, args, pidx, patch, content,
                   original_content, printed, rc, calls>>

WriteBack ==
    /\ pc = "patch"
    /\ pidx > Len(targets[fidx].patches)
    /\ LET path == targets[fidx].path
       IN IF content # original_content
          THEN /\ fs' = [fs EXCEPT ![path] = content]
               /\ events' = Append(events, Event("write", path, 0, content))
               /\ counts' = LogOk(counts)
          ELSE UNCHANGED <<fs, events, counts>>
    /\ MoveOn
    /\ UNCHANGED <<fs0, bak, targets, args, pidx, patch, content,
                   original_content, printed, rc, calls>>

\* Logger.summary(): prints the four counters, then logs the verdict
Summary ==
    /\ pc = "summary"
    /\ printed' = [counts |-> counts,
                   verdict |-> IF counts.fail > 0 THEN "SOME PATCHES FAILED"
                               ELSE "ALL PATCHES APPLIED SUCCESSFULLY"]
    /\ counts' = IF counts.fail > 0 THEN LogFail(counts) ELSE LogOk(counts)
    /\ pc' = "savelog"
    /\ UNCHANGED <<fs, fs0, bak, targets, args, fidx, pidx, patch, content,
                   original_content, rc, calls, events>>

\* the log is saved beside the targets (a failure to save is only printed),
\* the prompt is answered and main() returns
SaveLog_failStatus ==
    /\ pc = "savelog"
    /\ events' = Append(events, Event("log", "patch_log.txt", 0, <<>>))
    /\ rc' = IF counts.fail > 0 THEN 1 ELSE 0
    /\ pc' = "done"
    /\ UNCHANGED <<fs, fs0, bak, targets, args, fidx, pidx, patch, content,
                   original_content, counts, printed, calls>>

SaveLog ==
    /\ pc = "savelog"
    /\ events' = Append(events, Event("log", "patch_log.txt", 0, <<>>))
    /\ rc' = 0
    /\ pc' = "done"
    /\ UNCHANGED <<fs, fs0, bak, targets, args, fidx, pidx, patch, content,
                   original_content, counts, printed, calls>>

Next ==
    \/ SelectFolder
    \/ ValidateFolder
    \/ ReadIndex
    \/ ReadBackend
    \/ BackupFile
    \/ AttemptPatch
    \/ WriteBack
    \/ Summary
    \/ SaveLog

Init == InitMain

Spec == Init /\ [][Next]_vars

\* ------------------------------------- main() on the hardcoded patch tables
\* The patches of get_ui_patches() and get_backend_patches(), each text a
\* sequence of lexemes: a word, a newline, a space, or one other character.
\* The backslash and the backquote characters are the lexemes BSL and BQT.
BSL == "(backslash)"
BQT == "(backquote)"

BE_1 ==
    [id |-> "BE-1: Calendar completion patch Client NAME",
     search |->
       <<"const", SP, "desc", SP, "=", NL, SP, BQT, "ClientId", ":", SP, "$",
         "{", "task", ".", "clientId", "}", BSL, "n", BQT, SP, "+", NL, SP,
         BQT, "Start", ":", SP, "$", "{", "task", ".", "startDateYmd", "}",
         BSL, "n", BQT, SP, "+", NL, SP, BQT, "Due", ":", SP, "$", "{",
         "task", ".", "dueDateYmd", "}", BSL, "n", BQT, ";">>,
     replace |->
       <<"const", SP, "cn", SP, "=", SP, "String", "(", "task", ".",
         "clientNameSnapshot", SP, "|", "|", SP, "'", "'", ")", ".", "trim",
         "(", ")", SP, "|", "|", SP, "String", "(", "task", ".", "clientId",
         SP, "|", "|", SP, "'", "'", ")", ".", "trim", "(", ")", ";", NL,
         "const", SP, "extra", SP, "=", SP, "String", "(", "task", ".",
         "calendarDescription", SP, "|", "|", SP, "'", "'", ")", ".", "trim",
         "(", ")", ";", NL, "const", SP, "descBase", SP, "=", NL, SP, BQT,
         "Client", ":", SP, "$", "{", "cn", "}", BSL, "n", BQT, SP, "+", NL,
         SP, BQT, "Start", ":", SP, "$", "{", "task", ".", "startDateYmd",
         "}", BSL, "n", BQT, SP, "+", NL, SP, BQT, "Due", ":", SP, "$", "{",
         "task", ".", "dueDateYmd", "}", BSL, "n", BQT, ";", NL, "const",
         SP, "desc", SP, "=", SP, "extra", SP, "?", SP, BQT, "$", "{",
         "descBase", "}", BSL, "n", "$", "{", "extra", "}", BQT, SP, ":",
         SP, "descBase", ";">>,
     mode |-> "replace"]

BE_2A ==
    [id |-> "BE-2A: series_rebuild imports update",
     search |->
       <<"const", SP, "{", NL, SP, "withCors", ",", SP, "json", ",", SP,
         "db", ",", SP, "admin", ",", NL, SP, "calendar", ",", SP, "ymdIST",
         ",", SP, "addDays", ",", SP, "addInterval", ",", SP,
         "dateFromYmdIST", ",", NL, SP, "getCalendarWindow", ",", SP,
         "calTimeRange", ",", NL, SP, "auditLog", NL, "}", SP, "=", SP,
         "require", "(", "'", ".", "/", "_common", "'", ")", ";">>,
     replace |->
       <<"const", SP, "{", NL, SP, "withCors", ",", SP, "json", ",", SP,
         "db", ",", SP, "admin", ",", NL, SP, "ymdIST", ",", SP, "addDays",
         ",", SP, "addInterval", ",", SP, "dateFromYmdIST", ",", NL, SP,
         "getCalendarWindow", ",", NL, SP, "auditLog", ",", NL, SP,
         "createStartCalendarEvent", NL, "}", SP, "=", SP, "require", "(",
         "'", ".", "/", "_common", "'", ")", ";">>,
     mode |-> "replace"]

BE_2B ==
    [id |-> "BE-2B: Remove local createStartCalendarEvent from series_rebuild",
     search |->
       <<"async", SP, "function", SP, "createStartCalendarEvent", "(", "{",
         SP, "title", ",", SP, "clientId", ",", SP, "startDateYmd", ",", SP,
         "dueDateYmd", ",", SP, "window", SP, "}", ")", SP, "{", NL, SP,
         "const", SP, "cal", SP, "=", SP, "calendar", "(", ")", ";", NL, SP,
         "const", SP, "range", SP, "=", SP, "calTimeRange", "(",
         "startDateYmd", ",", SP, "window", ".", "startHH", ",", SP,
         "window", ".", "endHH", ",", SP, "window", ".", "timeZone", ")",
         ";", NL, SP, "const", SP, "res", SP, "=", SP, "await", SP, "cal",
         ".", "events", ".", "insert", "(", "{", NL, SP, "calendarId", ":",
         SP, "'", "primary", "'", ",", NL, SP, "sendUpdates", ":", SP, "'",
         "none", "'", ",", NL, SP, "requestBody", ":", SP, "{", NL, SP,
         "summary", ":", SP, BQT, "START", ":", SP, "$", "{", "title", "}",
         BQT, ",", NL, SP, "description", ":", SP, BQT, "ClientId", ":", SP,
         "$", "{", "clientId", "}", BSL, "nStart", ":", SP, "$", "{",
         "startDateYmd", "}", BSL, "nDue", ":", SP, "$", "{", "dueDateYmd",
         "}", BQT, ",", NL, SP, ".", ".", ".", "range", NL, SP, "}", NL, SP,
         "}", ")", ";", NL, SP, "return", SP, "{", SP, "calendarEventId",
         ":", SP, "res", ".", "data", ".", "id", ",", SP, "calendarHtmlLink",
         ":", SP, "res", ".", "data", ".", "htmlLink", SP, "|", "|", SP,
         "null", SP, "}", ";", NL, "}">>,
     replace |->
       <<"/", "/", SP, "Use", SP, "shared", SP, "createStartCalendarEvent",
         SP, "from", SP, "_common", ".", "js", SP, "(", "supports", SP,
         "clientName", SP, "+", SP, "calendarDescription", ")">>,
     mode |-> "replace"]

BE_2C ==
    [id |-> "BE-2C: Load clientName in series_rebuild",
     search |->
       <<"const", SP, "first", SP, "=", SP, "tasks", "[", "0", "]", ".",
         "data", ";">>,
     replace |->
       <<"const", SP, "first", SP, "=", SP, "tasks", "[", "0", "]", ".",
         "data", ";", NL, NL, "/", "/", SP, "Load", SP, "client", SP, "name",
         SP, "once", SP, "(", "for", SP, "Calendar", SP, "description", ")",
         NL, "const", SP, "cSnap", SP, "=", SP, "first", ".", "clientId", SP,
         "?", SP, "await", SP, "db", "(", ")", ".", "collection", "(", "'",
         "clients", "'", ")", ".", "doc", "(", "first", ".", "clientId", ")",
         ".", "get", "(", ")", SP, ":", SP, "null", ";", NL, "const", SP,
         "clientName", SP, "=", SP, "(", "cSnap", SP, "&", "&", SP, "cSnap",
         ".", "exists", ")", SP, "?", SP, "String", "(", "(", "cSnap", ".",
         "data", "(", ")", SP, "|", "|", SP, "{", "}", ")", ".", "name", SP,
         "|", "|", SP, "'", "'", ")", ".", "trim", "(", ")", SP, ":", SP,
         "'", "'", ";", NL, "const", SP, "calendarDescription", SP, "=", SP,
         "String", "(", "first", ".", "calendarDescription", SP, "|", "|",
         SP, "'", "'", ")", ".", "trim", "(", ")", ";">>,
     mode |-> "replace"]

BE_2D ==
    [id |-> "BE-2D: series_rebuild calendar event creation call",
     search |->
       <<"const", SP, "ev", SP, "=", SP, "await", SP,
         "createStartCalendarEvent", "(", "{", NL, SP, "title", ":", SP,
         "first", ".", "title", ",", NL, SP, "clientId", ":", SP, "first",
         ".", "clientId", ",", NL, SP, "startDateYmd", ",", NL, SP,
         "dueDateYmd", ",", NL, SP, "window", NL, "}", ")", ";">>,
     replace |->
       <<"const", SP, "ev", SP, "=", SP, "await", SP,
         "createStartCalendarEvent", "(", "{", NL, SP, "title", ":", SP,
         "first", ".", "title", ",", NL, SP, "clientId", ":", SP, "first",
         ".", "clientId", ",", NL, SP, "clientName", ":", SP, "clientName",
         SP, "|", "|", SP, "first", ".", "clientNameSnapshot", SP, "|", "|",
         SP, "'", "'", ",", NL, SP, "startDateYmd", ",", NL, SP,
         "dueDateYmd", ",", NL, SP, "window", ",", NL, SP,
         "calendarDescription", NL, "}", ")", ";">>,
     mode |-> "replace"]

BE_2E ==
    [id |-> "BE-2E: series_rebuild store clientNameSnapshot",
     search |->
       <<"await", SP, "tRef", ".", "set", "(", "{", NL, SP, ".", ".", ".",
         "first", ",", NL, SP, "occurrenceIndex", ":", SP, "idx", ",", NL,
         SP, "occurrenceTotal", ":", SP, "(", "first", ".",
         "occurrenceTotal", SP, "|", "|", SP, "maxIdx", ")", SP, "+", SP,
         "n", ",">>,
     replace |->
       <<"await", SP, "tRef", ".", "set", "(", "{", NL, SP, ".", ".", ".",
         "first", ",", NL, SP, "clientNameSnapshot", ":", SP, "(",
         "clientName", SP, "|", "|", SP, "first", ".", "clientNameSnapshot",
         SP, "|", "|", SP, "'", "'", ")", ",", NL, SP, "calendarDescription",
         ":", SP, "String", "(", "calendarDescription", SP, "|", "|", SP,
         "first", ".", "calendarDescription", SP, "|", "|", SP, "'", "'",
         ")", ".", "trim", "(", ")", ",", NL, SP, "occurrenceIndex", ":", SP,
         "idx", ",", NL, SP, "occurrenceTotal", ":", SP, "(", "first", ".",
         "occurrenceTotal", SP, "|", "|", SP, "maxIdx", ")", SP, "+", SP,
         "n", ",">>,
     mode |-> "replace"]

BE_3A ==
    [id |-> "BE-3A: bulkimport imports update",
     search |->
       <<"const", SP, "{", NL, SP, "withCors", ",", SP, "json", ",", SP,
         "db", ",", SP, "admin", ",", NL, SP, "calendar", ",", SP, "ymdIST",
         ",", SP, "dateFromYmdIST", ",", SP, "addDays", ",", SP,
         "addInterval", ",", NL, SP, "getCalendarWindow", ",", SP,
         "calTimeRange", ",", NL, SP, "auditLog", ",", SP, "asEmailList", NL,
         "}", SP, "=", SP, "require", "(", "'", ".", "/", "_common", "'",
         ")", ";">>,
     replace |->
       <<"const", SP, "{", NL, SP, "withCors", ",", SP, "json", ",", SP,
         "db", ",", SP, "admin", ",", NL, SP, "ymdIST", ",", SP,
         "dateFromYmdIST", ",", SP, "addDays", ",", SP, "addInterval", ",",
         NL, SP, "getCalendarWindow", ",", NL, SP, "auditLog", ",", SP,
         "asEmailList", ",", NL, SP, "createStartCalendarEvent", NL, "}", SP,
         "=", SP, "require", "(", "'", ".", "/", "_common", "'", ")", ";">>,
     mode |-> "replace"]

BE_3B ==
    [id |-> "BE-3B: Remove local createStartCalendarEvent from bulkimport",
     search |->
       <<"async", SP, "function", SP, "createStartCalendarEvent", "(", "{",
         SP, "title", ",", SP, "clientId", ",", SP, "startDateYmd", ",", SP,
         "dueDateYmd", ",", SP, "window", SP, "}", ")", SP, "{", NL, SP,
         "const", SP, "cal", SP, "=", SP, "calendar", "(", ")", ";", NL, SP,
         "const", SP, "range", SP, "=", SP, "calTimeRange", "(",
         "startDateYmd", ",", SP, "window", ".", "startHH", ",", SP,
         "window", ".", "endHH", ",", SP, "window", ".", "timeZone", ")",
         ";", NL, SP, "const", SP, "res", SP, "=", SP, "await", SP, "cal",
         ".", "events", ".", "insert", "(", "{", NL, SP, "calendarId", ":",
         SP, "'", "primary", "'", ",", NL, SP, "sendUpdates", ":", SP, "'",
         "none", "'", ",", NL, SP, "requestBody", ":", SP, "{", NL, SP,
         "summary", ":", SP, BQT, "START", ":", SP, "$", "{", "title", "}",
         BQT, ",", NL, SP, "description", ":", NL, SP, BQT, "ClientId", ":",
         SP, "$", "{", "clientId", "}", BSL, "n", BQT, SP, "+", NL, SP, BQT,
         "Start", ":", SP, "$", "{", "startDateYmd", "}", BSL, "n", BQT, SP,
         "+", NL, SP, BQT, "Due", ":", SP, "$", "{", "dueDateYmd", "}", BSL,
         "n", BQT, ",", NL, SP, ".", ".", ".", "range", NL, SP, "}", NL, SP,
         "}", ")", ";", NL, SP, "return", SP, "{", SP, "calendarEventId",
         ":", SP, "res", ".", "data", ".", "id", ",", SP, "calendarHtmlLink",
         ":", SP, "res", ".", "data", ".", "htmlLink", SP, "|", "|", SP,
         "null", SP, "}", ";", NL, "}">>,
     replace |->
       <<"/", "/", SP, "Use", SP, "shared", SP, "createStartCalendarEvent",
         SP, "from", SP, "_common", ".", "js", SP, "(", "supports", SP,
         "clientName", SP, "+", SP, "calendarDescription", ")">>,
     mode |-> "replace"]

BE_3C ==
    [id |-> "BE-3C: bulkimport pass clientName to calendar",
     search |->
       <<"const", SP, "ev", SP, "=", SP, "await", SP,
         "createStartCalendarEvent", "(", "{", NL, SP, "title", ",", SP,
         "clientId", ",", SP, "startDateYmd", ":", SP, "startYmd", ",", SP,
         "dueDateYmd", ":", SP, "dueYmd", ",", SP, "window", NL, "}", ")", ";">>,
     replace |->
       <<"const", SP, "cSnap", SP, "=", SP, "await", SP, "db", "(", ")", ".",
         "collection", "(", "'", "clients", "'", ")", ".", "doc", "(",
         "clientId", ")", ".", "get", "(", ")", ";", NL, "const", SP,
         "cName", SP, "=", SP, "cSnap", ".", "exists", SP, "?", SP, "String",
         "(", "(", "cSnap", ".", "data", "(", ")", SP, "|", "|", SP, "{",
         "}", ")", ".", "name", SP, "|", "|", SP, "'", "'", ")", ".", "trim",
         "(", ")", SP, ":", SP, "'", "'", ";", NL, "const", SP,
         "calendarDescription", SP, "=", SP, "String", "(", "body", ".",
         "calendarDescription", SP, "|", "|", SP, "body", ".",
         "googleCalendarDescription", SP, "|", "|", SP, "'", "'", ")", ".",
         "trim", "(", ")", ";", NL, NL, "const", SP, "ev", SP, "=", SP,
         "await", SP, "createStartCalendarEvent", "(", "{", NL, SP, "title",
         ",", NL, SP, "clientId", ",", NL, SP, "clientName", ":", SP,
         "cName", ",", NL, SP, "startDateYmd", ":", SP, "startYmd", ",", NL,
         SP, "dueDateYmd", ":", SP, "dueYmd", ",", NL, SP, "window", ",", NL,
         SP, "calendarDescription", NL, "}", ")", ";">>,
     mode |-> "replace"]

BE_4A ==
    [id |-> "BE-4A: createone define calendarDescription",
     search |->
       <<"const", SP, "isSeries", SP, "=", SP, "recurrence", SP, "!", "=",
         "=", SP, "'", "AD_HOC", "'", SP, "&", "&", SP, "generateCount", SP,
         ">", SP, "1", ";">>,
     replace |->
       <<"const", SP, "calendarDescription", SP, "=", SP, "String", "(",
         "body", ".", "calendarDescription", SP, "|", "|", SP, "body", ".",
         "googleCalendarDescription", SP, "|", "|", SP, "'", "'", ")", ".",
         "trim", "(", ")", ";", NL, "const", SP, "isSeries", SP, "=", SP,
         "recurrence", SP, "!", "=", "=", SP, "'", "AD_HOC", "'", SP, "&",
         "&", SP, "generateCount", SP, ">", SP, "1", ";">>,
     mode |-> "replace"]

BE_4B ==
    [id |-> "BE-4B: createone pass clientName to calendar",
     search |->
       <<"const", SP, "ev", SP, "=", SP, "await", SP,
         "createStartCalendarEvent", "(", "{", NL, SP, "title", ",", SP,
         "clientId", ",", SP, "startDateYmd", ":", SP, "startYmd", ",", SP,
         "dueDateYmd", ":", SP, "dueYmd", ",", SP, "window", NL, "}", ")", ";">>,
     replace |->
       <<"const", SP, "ev", SP, "=", SP, "await", SP,
         "createStartCalendarEvent", "(", "{", NL, SP, "title", ",", NL, SP,
         "clientId", ",", NL, SP, "clientName", ":", SP, "clientData", ".",
         "name", SP, "|", "|", SP, "'", "'", ",", NL, SP, "startDateYmd",
         ":", SP, "startYmd", ",", NL, SP, "dueDateYmd", ":", SP, "dueYmd",
         ",", NL, SP, "window", ",", NL, SP, "calendarDescription", NL, "}",
         ")", ";">>,
     mode |-> "replace"]

BE_4C ==
    [id |-> "BE-4C: createone store clientNameSnapshot",
     search |->
       <<"await", SP, "tRef", ".", "set", "(", "{", NL, SP, "clientId", ",",
         NL, SP, "title", ",", NL, SP, "category", ",", NL, SP, "type", ",",
         NL, SP, "priority", ",">>,
     replace |->
       <<"await", SP, "tRef", ".", "set", "(", "{", NL, SP, "clientId", ",",
         NL, SP, "clientNameSnapshot", ":", SP, "String", "(", "clientData",
         ".", "name", SP, "|", "|", SP, "'", "'", ")", ".", "trim", "(", ")",
         ",", NL, SP, "calendarDescription", ":", SP, "String", "(",
         "calendarDescription", SP, "|", "|", SP, "'", "'", ")", ".", "trim",
         "(", ")", ",", NL, SP, "title", ",", NL, SP, "category", ",", NL,
         SP, "type", ",", NL, SP, "priority", ",">>,
     mode |-> "replace"]

get_ui_patches ==
    <<
      [id |-> "UI-1: Bulk status dropdown include COMPLETED",
       search |->
         <<"function", SP, "allowedStatusesForBulk", "(", ")", SP, "{", NL, SP,
           "const", SP, "base", SP, "=", SP, "[", "'", "PENDING", "'", ",", SP,
           "'", "IN_PROGRESS", "'", ",", SP, "'", "CLIENT_PENDING", "'", ",",
           SP, "'", "APPROVAL_PENDING", "'", "]", ";", NL, SP, "if", SP, "(",
           "state", ".", "isPartner", SP, "|", "|", SP, "state", ".",
           "isManager", ")", SP, "base", ".", "push", "(", "'", "COMPLETED",
           "'", ")", ";", NL, SP, "return", SP, "base", ";", NL, "}">>,
       replace |->
         <<"function", SP, "allowedStatusesForBulk", "(", ")", SP, "{", NL, SP,
           "/", "/", SP, "Everyone", SP, "can", SP, "set", SP, "COMPLETED", SP,
           "for", SP, "tasks", SP, "they", SP, "are", SP, "allowed", SP, "to",
           SP, "edit", SP, "(", "backend", SP, "enforces", SP, "ownership",
           ")", NL, SP, "return", SP, "[", "'", "PENDING", "'", ",", SP, "'",
           "IN_PROGRESS", "'", ",", SP, "'", "CLIENT_PENDING", "'", ",", SP,
           "'", "APPROVAL_PENDING", "'", ",", SP, "'", "COMPLETED", "'", "]",
           ";", NL, "}">>,
       mode |-> "replace"],
      [id |-> "UI-2: Help text role statement update",
       search |->
         <<"<", "b", ">", "ASSOCIATE", "<", "/", "b", ">", ":", SP, "update",
           SP, "statuses", ",", SP, "add", SP, "comments", ",", SP, "upload",
           SP, "attachments", ".", "<", "br", ">", NL, "<", "b", ">",
           "MANAGER", SP, "/", SP, "PARTNER", "<", "/", "b", ">", ":", SP,
           "edit", SP, "task", SP, "details", ",", SP, "reassign", ",", SP,
           "complete", SP, "tasks", ",", SP, "exports", "/", "reports", ".">>,
       replace |->
         <<"<", "b", ">", "ASSOCIATE", "<", "/", "b", ">", ":", SP, "update",
           SP, "statuses", SP, "(", "including", SP, "<", "b", ">",
           "COMPLETED", "<", "/", "b", ">", SP, "for", SP, "tasks", SP,
           "assigned", SP, "to", SP, "you", ")", ",", SP, "add", SP,
           "comments", ",", SP, "upload", SP, "attachments", ".", "<", "br",
           ">", NL, "<", "b", ">", "MANAGER", SP, "/", SP, "PARTNER", "<", "/",
           "b", ">", ":", SP, "edit", SP, "task", SP, "details", ",", SP,
           "reassign", ",", SP, "exports", "/", "reports", ".">>,
       mode |-> "replace"],
      [id |-> "UI-3: Task Drawer status dropdown COMPLETED for all",
       search |->
         <<"function", SP, "statusOptionsForRole", "(", ")", SP, "{", NL, SP,
           "const", SP, "base", SP, "=", SP, "[", "'", "PENDING", "'", ",", SP,
           "'", "IN_PROGRESS", "'", ",", SP, "'", "CLIENT_PENDING", "'", ",",
           SP, "'", "APPROVAL_PENDING", "'", "]", ";", NL, SP, "if", SP, "(",
           "roleCanEditDetails", "(", ")", ")", SP, "base", ".", "push", "(",
           "'", "COMPLETED", "'", ")", ";", NL, SP, "return", SP, "base", ";",
           NL, "}">>,
       replace |->
         <<"function", SP, "statusOptionsForRole", "(", ")", SP, "{", NL, SP,
           "/", "/", SP, "Everyone", SP, "can", SP, "mark", SP, "COMPLETED",
           SP, "(", "backend", SP, "enforces", SP, "\"", "must", SP, "be", SP,
           "assignee", "\"", SP, "for", SP, "associates", ")", NL, SP,
           "return", SP, "[", "'", "PENDING", "'", ",", SP, "'", "IN_PROGRESS",
           "'", ",", SP, "'", "CLIENT_PENDING", "'", ",", SP, "'",
           "APPROVAL_PENDING", "'", ",", SP, "'", "COMPLETED", "'", "]", ";",
           NL, "}">>,
       mode |-> "replace"],
      [id |-> "UI-4: Drawer dropdown width/overflow CSS fix",
       search |->
         <<".", "cosTwoCol", "{", SP, "display", ":", "grid", ";", SP, "grid",
           "-", "template", "-", "columns", ":", SP, "repeat", "(", "12", ",",
           SP, "1fr", ")", ";", SP, "gap", ":", SP, "14px", ";", SP, "}">>,
       replace |->
         <<".", "cosTwoCol", "{", SP, "display", ":", "grid", ";", SP, "grid",
           "-", "template", "-", "columns", ":", SP, "repeat", "(", "12", ",",
           SP, "1fr", ")", ";", SP, "gap", ":", SP, "14px", ";", SP, "}", NL,
           NL, "/", "*", SP, "Dropdown", SP, "width", "/", "overflow", SP,
           "fix", SP, "(", "prevents", SP, "long", SP, "client", "/", "type",
           "/", "status", SP, "from", SP, "stretching", SP, "UI", ")", SP, "*",
           "/", NL, ".", "cosDrawerBody", SP, ".", "field", "{", SP, "align",
           "-", "items", ":", "flex", "-", "start", ";", SP, "}", NL, ".",
           "cosDrawerBody", SP, "select", ".", "select", "{", NL, SP, "width",
           ":", SP, "min", "(", "520px", ",", SP, "100", "%", ")", ";", NL, SP,
           "max", "-", "width", ":", SP, "100", "%", ";", NL, SP, "white", "-",
           "space", ":", SP, "nowrap", ";", NL, SP, "overflow", ":", SP,
           "hidden", ";", NL, SP, "text", "-", "overflow", ":", SP, "ellipsis",
           ";", NL, "}">>,
       mode |-> "replace"],
      [id |-> "UI-5A: Expose __cos_openCreateOneTask",
       search |->
         <<"/", "*", SP, "-", "-", "-", "-", "-", "-", "-", "-", "-", "-", SP,
           "Expose", SP, "openers", SP, "to", SP, "other", SP, "parts", SP,
           "-", "-", "-", "-", "-", "-", "-", "-", "-", "-", SP, "*", "/", NL,
           "window", ".", "__cos_openTaskInspector", SP, "=", SP, "(",
           "taskId", ")", SP, "=", ">", SP, "renderTaskDrawer", "(", "taskId",
           ")", ";", NL, "window", ".", "__cos_openCreateTask", SP, "=", SP,
           "(", ")", SP, "=", ">", SP, "renderCreateDrawer", "(", ")", ";">>,
       replace |->
         <<"/", "*", SP, "-", "-", "-", "-", "-", "-", "-", "-", "-", "-", SP,
           "Expose", SP, "openers", SP, "to", SP, "other", SP, "parts", SP,
           "-", "-", "-", "-", "-", "-", "-", "-", "-", "-", SP, "*", "/", NL,
           "window", ".", "__cos_openTaskInspector", SP, "=", SP, "(",
           "taskId", ")", SP, "=", ">", SP, "renderTaskDrawer", "(", "taskId",
           ")", ";", NL, "window", ".", "__cos_openCreateTask", SP, "=", SP,
           "(", ")", SP, "=", ">", SP, "renderCreateDrawer", "(", "{", SP,
           "oneOnly", ":", SP, "false", SP, "}", ")", ";", NL, "window", ".",
           "__cos_openCreateOneTask", SP, "=", SP, "(", ")", SP, "=", ">", SP,
           "renderCreateDrawer", "(", "{", SP, "oneOnly", ":", SP, "true", SP,
           "}", ")", ";">>,
       mode |-> "replace"],
      [id |-> "UI-5B: renderCreateDrawer support oneOnly",
       search |->
         <<"function", SP, "renderCreateDrawer", "(", ")", SP, "{", NL, SP,
           "clearLive", "(", ")", ";", NL, SP, "drawerMode", SP, "=", SP, "'",
           "create", "'", ";", NL, SP, "currentTaskId", SP, "=", SP, "null",
           ";", NL, SP, "dTitle", ".", "textContent", SP, "=", SP, "'",
           "Create", SP, "task", "'", ";", NL, SP, "dSub", ".", "textContent",
           SP, "=", SP, "'", "Create", SP, "one", SP, "task", SP, "or", SP,
           "a", SP, "repeating", SP, "series", SP, "(", "old", SP, "UI", SP,
           "form", ",", SP, "new", SP, "backend", ")", ".", "'", ";", NL, SP,
           "body", ".", "innerHTML", SP, "=", SP, "'", "'", ";", NL, SP,
           "body", ".", "appendChild", "(", "card", "(", "'", "Create", SP,
           "task", "'", ",", SP, "'", "Fill", SP, "details", ",", SP, "set",
           SP, "emails", ",", SP, "then", SP, "create", ".", "'", ",", SP,
           "pill", "(", "state", ".", "role", ",", SP, "'", "'", ")", ",", SP,
           "mountCreatePanel", "(", ")", ")", ")", ";", NL, SP, "openDrawer",
           "(", ")", ";", NL, "}">>,
       replace |->
         <<"function", SP, "renderCreateDrawer", "(", "{", SP, "oneOnly", SP,
           "=", SP, "false", SP, "}", SP, "=", SP, "{", "}", ")", SP, "{", NL,
           SP, "clearLive", "(", ")", ";", NL, SP, "drawerMode", SP, "=", SP,
           "'", "create", "'", ";", NL, SP, "currentTaskId", SP, "=", SP,
           "null", ";", NL, NL, SP, "dTitle", ".", "textContent", SP, "=", SP,
           "oneOnly", SP, "?", SP, "'", "Create", SP, "ONE", SP, "task", "'",
           SP, ":", SP, "'", "Create", SP, "task", "'", ";", NL, SP, "dSub",
           ".", "textContent", SP, "=", SP, "oneOnly", NL, SP, SP, SP, "?", SP,
           "'", "Quick", SP, "create", ":", SP, "exactly", SP, "one", SP,
           "task", SP, "(", "associates", SP, "supported", ")", ".", "'", NL,
           SP, SP, SP, ":", SP, "'", "Create", SP, "one", SP, "task", SP, "or",
           SP, "a", SP, "repeating", SP, "series", SP, "(", "old", SP, "UI",
           SP, "form", ",", SP, "new", SP, "backend", ")", ".", "'", ";", NL,
           NL, SP, "body", ".", "innerHTML", SP, "=", SP, "'", "'", ";", NL,
           SP, "body", ".", "appendChild", "(", NL, SP, SP, SP, "card", "(",
           NL, SP, SP, SP, SP, SP, "oneOnly", SP, "?", SP, "'", "Create", SP,
           "ONE", SP, "task", "'", SP, ":", SP, "'", "Create", SP, "task", "'",
           ",", NL, SP, SP, SP, SP, SP, "oneOnly", SP, "?", SP, "'", "One",
           "-", "time", SP, "task", SP, "only", ".", "'", SP, ":", SP, "'",
           "Fill", SP, "details", ",", SP, "set", SP, "emails", ",", SP,
           "then", SP, "create", ".", "'", ",", NL, SP, SP, SP, SP, SP, "pill",
           "(", "state", ".", "role", ",", SP, "'", "'", ")", ",", NL, SP, SP,
           SP, SP, SP, "mountCreatePanel", "(", "{", SP, "oneOnly", SP, "}",
           ")", NL, SP, SP, SP, ")", NL, SP, ")", ";", NL, SP, "openDrawer",
           "(", ")", ";", NL, "}">>,
       mode |-> "replace"],
      [id |-> "UI-5C: mountCreatePanel accept oneOnly",
       search |->
         <<"function", SP, "mountCreatePanel", "(", ")", SP, "{">>,
       replace |->
         <<"function", SP, "mountCreatePanel", "(", "{", SP, "oneOnly", SP,
           "=", SP, "false", SP, "}", SP, "=", SP, "{", "}", ")", SP, "{">>,
       mode |-> "replace"],
      [id |-> "UI-5D: Force recurrence/count when oneOnly",
       search |->
         <<"const", SP, "genCount", SP, "=", SP, "h", "(", "'", "input", "'",
           ",", SP, "{", SP, "class", ":", SP, "'", "input", "'", ",", SP,
           "type", ":", SP, "'", "number", "'", ",", SP, "min", ":", SP, "'",
           "1", "'", ",", SP, "value", ":", SP, "'", "1", "'", SP, "}", ")", ";">>,
       replace |->
         <<"const", SP, "genCount", SP, "=", SP, "h", "(", "'", "input", "'",
           ",", SP, "{", SP, "class", ":", SP, "'", "input", "'", ",", SP,
           "type", ":", SP, "'", "number", "'", ",", SP, "min", ":", SP, "'",
           "1", "'", ",", SP, "value", ":", SP, "'", "1", "'", SP, "}", ")",
           ";", NL, NL, "if", SP, "(", "oneOnly", ")", SP, "{", NL, SP, SP,
           "recurrence", ".", "value", SP, "=", SP, "'", "AD_HOC", "'", ";",
           NL, SP, SP, "recurrence", ".", "disabled", SP, "=", SP, "true", ";",
           NL, SP, SP, "genCount", ".", "value", SP, "=", SP, "'", "1", "'",
           ";", NL, SP, SP, "genCount", ".", "disabled", SP, "=", SP, "true",
           ";", NL, "}">>,
       mode |-> "replace"],
      [id |-> "UI-5E: Force payload for oneOnly",
       search |->
         <<"recurrence", ":", SP, "recurrence", ".", "value", ",", NL,
           "generateCount", ":", SP, "Number", "(", "genCount", ".", "value",
           SP, "|", "|", SP, "1", ")", ",">>,
       replace |->
         <<"recurrence", ":", SP, "oneOnly", SP, "?", SP, "'", "AD_HOC", "'",
           SP, ":", SP, "recurrence", ".", "value", ",", NL, "generateCount",
           ":", SP, "oneOnly", SP, "?", SP, "1", SP, ":", SP, "Number", "(",
           "genCount", ".", "value", SP, "|", "|", SP, "1", ")", ",">>,
       mode |-> "replace"]
    >>

get_backend_patches ==
    [path \in {TargetPaths[i] : i \in 2..Len(TargetPaths)} |->
       IF path = "netlify/functions/tasks_updatestatus.js"
       THEN <<BE_1>>
       ELSE
       IF path = "netlify/functions/series_rebuild.js"
       THEN <<BE_2A, BE_2B, BE_2C, BE_2D, BE_2E>>
       ELSE
       IF path = "netlify/functions/tasks_bulkimportcsv.js"
       THEN <<BE_3A, BE_3B, BE_3C>>
       ELSE
       <<BE_4A, BE_4B, BE_4C>>]

\* ui_patches and backend_patches as main() walks them
HardcodedTargets ==
    [i \in DOMAIN TargetPaths |->
       [path |-> TargetPaths[i],
        patches |-> IF i = 1 THEN get_ui_patches
                    ELSE get_backend_patches[TargetPaths[i]]]]

\* A target file that holds every search snippet of its list verbatim, in
\* list order, and nothing of the replacements: the snippets separated by
\* one of these texts.
PristineSeparators == {<<NL>>, <<NL, NL>>}

RECURSIVE JoinSnippets(_, _)
JoinSnippets(patches, sep) ==
    IF patches = <<>> THEN <<>>
    ELSE IF Len(patches) = 1 THEN Head(patches).search
    ELSE Head(patches).search \o sep \o JoinSnippets(Tail(patches), sep)

InitHardcoded ==
    /\ targets = HardcodedTargets
    /\ \E present \in SUBSET Paths, sep \in PristineSeparators :
          fs = [p \in Paths |->
                  LET i == CHOOSE k \in DOMAIN TargetPaths : TargetPaths[k] = p
                  IN IF p \in present
                     THEN JoinSnippets(HardcodedTargets[i].patches, sep)
                     ELSE NoFile]
    /\ fs0 = fs
    /\ bak = [p \in Paths |-> NoFile]
    /\ args = NoArgs
    /\ pc = "start"
    /\ fidx = 0 /\ pidx = 0
    /\ patch = NoPatch
    /\ content = <<>> /\ original_content = <<>>
    /\ counts = ZeroCounts
    /\ printed = NothingPrinted
    /\ rc = NoStatus
    /\ calls = <<>> /\ events = <<>>

SpecHardcoded == InitHardcoded /\ [][Next]_vars

\* -------------------------------------------------- the Layout Fixer
\* An HTML text is a sequence of lexemes: a closing tag, a marker comment, a
\* newline, or a run of other text.
PATCH_MARKER_CSS_BEGIN == "/* === COS_LAYOUT_PATCH_BEGIN === */"
PATCH_MARKER_CSS_END == "/* === COS_LAYOUT_PATCH_END === */"
PATCH_MARKER_JS_BEGIN == "/* === COS_LAYOUT_PATCH_JS_BEGIN === */"
PATCH_MARKER_JS_END == "/* === COS_LAYOUT_PATCH_JS_END === */"

\* The comment JS_PATCH opens with runs over five lines; it is not the text
\* of PATCH_MARKER_JS_BEGIN.
JsPatchOpening == "/* === COS_LAYOUT_PATCH_JS_BEGIN ===\n - Adds expandable rail ...\n=== */"

CSS_PATCH == <<PATCH_MARKER_CSS_BEGIN, "css rules", PATCH_MARKER_CSS_END>>
JS_PATCH == <<JsPatchOpening, "js code", PATCH_MARKER_JS_END>>

\* a line ending of two characters, carriage return and line feed
CRLF == "\r\n"

MaxHtmlLen == 3
MaxRuns == 2
HtmlLexemes ==
    {"x", "</style>", "</STYLE >", "</body>", "</html>", "</HTML>",
     PATCH_MARKER_CSS_BEGIN, PATCH_MARKER_CSS_END,
     PATCH_MARKER_JS_BEGIN, PATCH_MARKER_JS_END}
Docs == UNION {[1..n -> HtmlLexemes] : n \in 0..MaxHtmlLen}

InputPath == "index.html"
OutPath == "out.html"
MissingPath == "missing.html"
\* the default output name of run n: <stem>.fixed.<timestamp><suffix>
DefaultOut(n) == IF n = 1 THEN "index.fixed.1.html" ELSE "index.fixed.2.html"
LFPaths == {InputPath, OutPath, MissingPath} \cup {DefaultOut(n) : n \in 1..(MaxRuns + 1)}

\* the lexemes re.search(r"</style\s*>", html, re.IGNORECASE) matches
IsStyleClose(tok) == tok \in {"</style>", "</STYLE >"}
\* the lexemes re.search(r"</body\s*>", html, re.IGNORECASE) matches
IsBodyClose(tok) == tok \in {"</body>"}
\* the lexemes that hold "</html>" once lowered
IsHtmlCloseLowered(tok) == tok \in {"</html>", "</HTML>"}

\* m.start() of the first match, 0-based; -1 stands for the ValueError
_find_style_close_index(html) ==
    LET hits == {i \in DOMAIN html : IsStyleClose(html[i])}
    IN IF hits = {} THEN -1 ELSE Min(hits) - 1

_find_body_close_index(html) ==
    LET hits == {i \in DOMAIN html : IsBodyClose(html[i])}
    IN IF hits = {} THEN -1 ELSE Min(hits) - 1

\* re.sub(re.escape(begin) + r".*?" + re.escape(end), "", html, flags=re.DOTALL):
\* from each begin marker to the nearest end marker after it, left to right
RECURSIVE RemoveBlocks(_, _, _)
RemoveBlocks(html, begin, end) ==
    LET bs == {i \in DOMAIN html : html[i] = begin}
        b == Min(bs)
        es == {j \in (b + 1)..Len(html) : html[j] = end}
    IN IF bs = {} THEN html
       ELSE IF es = {} THEN html
       ELSE SubSeq(html, 1, b - 1)
            \o RemoveBlocks(SubSeq(html, Min(es) + 1, Len(html)), begin, end)

_remove_existing_patch(html) ==
    RemoveBlocks(RemoveBlocks(html, PATCH_MARKER_CSS_BEGIN, PATCH_MARKER_CSS_END),
                 PATCH_MARKER_JS_BEGIN, PATCH_MARKER_JS_END)

_apply_base_css_fixes(html) == html

\* cleaned[:style_close] + "\n\n" + CSS_PATCH + "\n\n" + cleaned[style_close:]
InsertCss_afterTag(cleaned, style_close) ==
    Slice(cleaned, 0, style_close + 1) \o <<NL, NL>> \o CSS_PATCH \o <<NL, NL>>
    \o Slice(cleaned, style_close + 1, Len(cleaned))

InsertCss(cleaned, style_close) ==
    Slice(cleaned, 0, style_close) \o <<NL, NL>> \o CSS_PATCH \o <<NL, NL>>
    \o Slice(cleaned, style_close, Len(cleaned))

\* cleaned[:body_close] + "\n\n<script>\n" + JS_PATCH + "\n</script>\n\n" + cleaned[body_close:]
InsertJs(cleaned, body_close) ==
    Slice(cleaned, 0, body_close) \o <<NL, NL, "<script>", NL>> \o JS_PATCH
    \o <<NL, "</script>", NL, NL>> \o Slice(cleaned, body_close, Len(cleaned))

\* "</html>" in cleaned.lower()
HasHtmlClose(cleaned) == \E i \in DOMAIN cleaned : IsHtmlCloseLowered(cleaned[i])

RunRecord(status, written) ==
    [inp |-> args.inp, out |-> args.out, raw |-> original_content,
     rc |-> status, written |-> written]

InitLayout ==
    /\ \E doc \in Docs :
          fs = [p \in LFPaths |-> IF p = InputPath THEN doc ELSE NoFile]
    /\ fs0 = fs
    /\ bak = <<>> /\ targets = <<>>
    /\ args = NoArgs
    /\ pc = "lf_start"
    /\ fidx = 0 /\ pidx = 0
    /\ patch = NoPatch
    /\ content = <<>> /\ original_content = <<>>
    /\ counts = ZeroCounts
    /\ printed = NothingPrinted
    /\ rc = NoStatus
    /\ calls = <<>> /\ events = <<>>

\* main(argv) up to the try: the arguments are parsed, a missing input ends
\* the run with status 2, the output path is --out or the default name
LFParseArgs_missingIsOne ==
    /\ pc = "lf_start"
    /\ \E inp \in {p \in LFPaths : fs[p] # NoFile} \cup {MissingPath},
          out \in {"", OutPath, InputPath} :
          /\ args' = [inp |-> inp,
                      out |-> IF out = "" THEN DefaultOut(Len(calls) + 1) ELSE out]
          /\ original_content' = fs[inp]
          /\ IF fs[inp] = NoFile
             THEN /\ rc' = 1
                  /\ pc' = "lf_exit"
                  /\ calls' = Append(calls, [inp |-> inp, out |-> "", raw |-> NoFile,
                                             rc |-> 1, written |-> NoFile])
             ELSE /\ pc' = "lf_read"
                  /\ UNCHANGED <<rc, calls>>
    /\ fs0' = fs
    /\ UNCHANGED <<fs, bak, targets, fidx, pidx, patch, content, counts,
                   printed, events>>

LFParseArgs ==
    /\ pc = "lf_start"
    /\ \E inp \in {p \in LFPaths : fs[p] # NoFile} \cup {MissingPath},
          out \in {"", OutPath, InputPath} :
          /\ args' = [inp |-> inp,
                      out |-> IF out = "" THEN DefaultOut(Len(calls) + 1) ELSE out]
          /\ original_content' = fs[inp]
          /\ IF fs[inp] = NoFile
             THEN /\ rc' = 2
                  /\ pc' = "lf_exit"
                  /\ calls' = Append(calls, [inp |-> inp, out |-> "", raw |-> NoFile,
                                             rc |-> 2, written |-> NoFile])
             ELSE /\ pc' = "lf_read"
                  /\ UNCHANGED <<rc, calls>>
    /\ fs0' = fs
    /\ UNCHANGED <<fs, bak, targets, fidx, pidx, patch, content, counts,
                   printed, events>>

\* input_path.read_text(encoding="utf-8"): the file is opened in text mode,
\* which hands over every carriage-return/line-feed pair as one newline
read_text(bytes) ==
    [i \in DOMAIN bytes |-> IF bytes[i] = CRLF THEN NL ELSE bytes[i]]

\* patch_html: raw = input_path.read_text(); cleaned = _remove_existing_patch(raw)
LFRead ==
    /\ pc = "lf_read"
    /\ content' = _remove_existing_patch(read_text(fs[args.inp]))
    /\ pc' = "lf_css"
    /\ UNCHANGED <<fs, fs0, bak, targets, args, fidx, pidx, patch,
                   original_content, counts, printed, rc, calls, events>>

\* the run ends with status 1: main() caught the exception patch_html raised
LFRaise ==
    /\ rc' = 1
    /\ pc' = "lf_exit"
    /\ calls' = Append(calls, RunRecord(1, NoFile))
    /\ UNCHANGED <<content, fs, events>>

\* patch_html: the CSS block goes before the first </style>
LFInsertCss ==
    /\ pc = "lf_css"
    /\ LET style_close == _find_style_close_index(content)
       IN IF style_close = -1
          THEN LFRaise
          ELSE /\ content' = InsertCss(content, style_close)
               /\ pc' = "lf_js"
               /\ UNCHANGED <<fs, rc, calls, events>>
    /\ UNCHANGED <<fs0, bak, targets, args, fidx, pidx, patch, original_content,
                   counts, printed>>

\* patch_html: the script block goes before the first </body>
LFInsertJs ==
    /\ pc = "lf_js"
    /\ LET body_close == _find_body_close_index(content)
       IN IF body_close = -1
          THEN LFRaise
          ELSE /\ content' = _apply_base_css_fixes(InsertJs(content, body_close))
               /\ pc' = "lf_sanity"
               /\ UNCHANGED <<fs, rc, calls, events>>
    /\ UNCHANGED <<fs0, bak, targets, args, fidx, pidx, patch, original_content,
                   counts, printed>>

\* patch_html: the sanity check on the assembled document
LFSanity_none ==
    /\ pc = "lf_sanity"
    /\ pc' = "lf_write"
    /\ UNCHANGED <<content, fs, rc, calls, events>>
    /\ UNCHANGED <<fs0, bak, targets, args, fidx, pidx, patch, original_content,
                   counts, printed>>

LFSanity ==
    /\ pc = "lf_sanity"
    /\ IF ~HasHtmlClose(content)
       THEN LFRaise
       ELSE /\ pc' = "lf_write"
            /\ UNCHANGED <<content, fs, rc, calls, events>>
    /\ UNCHANGED <<fs0, bak, targets, args, fidx, pidx, patch, original_content,
                   counts, printed>>

\* patch_html: output_path.write_text(cleaned); main() returns 0
LFWrite ==
    /\ pc = "lf_write"
    /\ fs' = [fs EXCEPT ![args.out] = content]
    /\ events' = Append(events, Event("write", args.out, Len(calls) + 1, content))
    /\ calls' = Append(calls, RunRecord(0, content))
    /\ rc' = 0
    /\ pc' = "lf_exit"
    /\ UNCHANGED <<fs0, bak, targets, args, fidx, pidx, patch, content,
                   original_content, counts, printed>>

\* the tool is run again
LFAgain ==
    /\ pc = "lf_exit"
    /\ Len(calls) < MaxRuns
    /\ pc' = "lf_start"
    /\ rc' = NoStatus
    /\ UNCHANGED <<fs, fs0, bak, targets, args, fidx, pidx, patch, content,
                   original_content, counts, printed, calls, events>>

NextLayout ==
    \/ LFParseArgs
    \/ LFRead
    \/ LFInsertCss
    \/ LFInsertJs
    \/ LFSanity
    \/ LFWrite
    \/ LFAgain

SpecLayout == InitLayout /\ [][NextLayout]_vars

\* ------------------------------------- the Layout Fixer on marker-free files
\* Inputs without patch markers, with either kind of line ending.
MaxPlainLen == 4
PlainLexemes == {"x", NL, CRLF, "</style>", "</body>", "</html>"}
PlainDocs == UNION {[1..n -> PlainLexemes] : n \in 0..MaxPlainLen}

InitPlain ==
    /\ \E doc \in PlainDocs :
          fs = [p \in LFPaths |-> IF p = InputPath THEN doc ELSE NoFile]
    /\ fs0 = fs
    /\ bak = <<>> /\ targets = <<>>
    /\ args = NoArgs
    /\ pc = "lf_start"
    /\ fidx = 0 /\ pidx = 0
    /\ patch = NoPatch
    /\ content = <<>> /\ original_content = <<>>
    /\ counts = ZeroCounts
    /\ printed = NothingPrinted
    /\ rc = NoStatus
    /\ calls = <<>> /\ events = <<>>

SpecPlain == InitPlain /\ [][NextLayout]_vars

\* ===================================================================
\* Properties
\* ===================================================================
Calls == {calls[k] : k \in DOMAIN calls}

\* s occurs in c at offset i and at no smaller offset
FirstOccurrence(c, s, i) ==
    StartsAt(c, s, i) /\ \A k \in 0..(i - 1) : ~StartsAt(c, s, k)

Occurs(c, s) == \E i \in 0..Len(c) : StartsAt(c, s, i)

\* out is c with the occurrence of s at offset i replaced by r
ReplacedAt(c, s, r, i, out) ==
    /\ StartsAt(c, s, i)
    /\ Len(out) = Len(c) - Len(s) + Len(r)
    /\ \A k \in 1..i : out[k] = c[k]
    /\ \A k \in 1..Len(r) : out[i + k] = r[k]
    /\ \A k \in (i + Len(s) + 1)..Len(c) : out[k - Len(s) + Len(r)] = c[k]

\* C1 (as claimed, for a non-empty snippet): whenever the trimmed search
\* snippet of a replace-mode patch occurs verbatim in the content,
\* advanced_apply_patch succeeds and returns the content with an occurrence of
\* the snippet replaced by the trimmed replacement, every other character
\* unchanged.
C1_ExactAlwaysReplaces ==
    \A c \in Calls :
        (/\ c.patch.mode = "replace"
         /\ Strip(c.patch.search) # <<>>
         /\ Occurs(c.before, Strip(c.patch.search)))
        => /\ c.success
           /\ \E i \in 0..Len(c.before) :
                 ReplacedAt(c.before, Strip(c.patch.search),
                            Strip(c.patch.replace), i, c.after)

\* C1 (amended): whenever the trimmed search snippet of a replace-mode patch
\* occurs verbatim in the content, advanced_apply_patch succeeds; if the
\* already-applied test fires it logs SKIP and returns the content unchanged,
\* otherwise it returns the content with the first occurrence of the snippet
\* replaced by the trimmed replacement, every other character unchanged.
C1_ExactReplacesUnlessAlreadyApplied ==
    \A c \in Calls :
        LET S == Strip(c.patch.search)
            R == Strip(c.patch.replace)
        IN (c.patch.mode = "replace" /\ Occurs(c.before, S))
           => /\ c.success
              /\ IF AlreadyApplied(c.before, S, R)
                 THEN c.via = "skip" /\ c.after = c.before
                 ELSE /\ c.via = "exact"
                      /\ \E i \in 0..Len(c.before) :
                            /\ FirstOccurrence(c.before, S, i)
                            /\ ReplacedAt(c.before, S, R, i, c.after)

\* C1 witness: a snippet that occurs in the middle of the content was
\* replaced by a different text, the characters before and after it kept.
C1_Witness ==
    \E c \in Calls :
        /\ c.via = "exact"
        /\ Strip(c.patch.search) # <<>>
        /\ Strip(c.patch.replace) # Strip(c.patch.search)
        /\ \E i \in 1..(Len(c.before) - 1) :
              /\ FirstOccurrence(c.before, Strip(c.patch.search), i)
              /\ i + Len(Strip(c.patch.search)) < Len(c.before)
        /\ c.after # c.before

\* C2 (as claimed, in its weakest form): when an application of a patch
\* succeeds with result C1, applying the same patch to C1 returns C1 unchanged.
C2_SecondApplicationChangesNothing ==
    \A k \in DOMAIN calls :
        (k + 1 \in DOMAIN calls /\ calls[k].success
            /\ calls[k + 1].patch = calls[k].patch
            /\ calls[k + 1].before = calls[k].after)
        => calls[k + 1].after = calls[k].after

\* the search text is found by none of the four strategies
FoundByNoStrategy(c, search) ==
    /\ ~Occurs(c, Strip(search))
    /\ LineStrippedMatch(c, Strip(search)) = <<>>
    /\ re_search(make_fuzzy_pattern(search), c) = <<-1, -1>>
    /\ CollapsedSpan(c, Strip(search)) = <<-1, -1>>

FailsLogged == Cardinality({k \in DOMAIN calls : calls[k].via = "fail"})

\* C5 (as claimed): when no strategy finds the search text, the call reports
\* failure (success flag FALSE, one FAIL logged) and returns the content
\* unchanged.
C5_NotFoundFails ==
    /\ \A c \in Calls :
          FoundByNoStrategy(c.before, c.patch.search)
          => ~c.success /\ c.via = "fail" /\ c.after = c.before
    /\ counts.fail = FailsLogged

\* C5 (amended): when no strategy finds the search text, the content is
\* returned unchanged; the call reports failure (success flag FALSE, one FAIL
\* logged) unless the already-applied test fires, in which case it reports
\* success and logs one SKIP.
C5_NotFoundFailsUnlessAlreadyApplied ==
    /\ \A c \in Calls :
          FoundByNoStrategy(c.before, c.patch.search)
          => /\ c.after = c.before
             /\ IF AlreadyApplied(c.before, Strip(c.patch.search), Strip(c.patch.replace))
                THEN c.success /\ c.via = "skip"
                ELSE ~c.success /\ c.via = "fail"
    /\ counts.fail = FailsLogged
    /\ counts.skip = Cardinality({k \in DOMAIN calls : calls[k].via = "skip"})

\* C5 witness: a multi-line search text that no strategy finds in a non-empty
\* content was reported as a failure.
C5_Witness ==
    \E c \in Calls :
        /\ FoundByNoStrategy(c.before, c.patch.search)
        /\ Len(SplitNL(Strip(c.patch.search))) > 1
        /\ c.before # <<>>
        /\ c.via = "fail" /\ ~c.success /\ counts.fail > 0

\* occ is the text s with other leading whitespace on its lines
SameModuloIndent(occ, s) ==
    LET ol == SplitNL(occ)
        sl == SplitNL(s)
    IN /\ Len(ol) = Len(sl)
       /\ \A i \in DOMAIN ol : LStrip(ol[i]) = LStrip(sl[i])
       /\ RStrip(occ) = occ

\* c = pre \o occ \o post with occ an occurrence of s modulo indentation,
\* and out = pre \o (something) \o post
FrameKept(c, s, out) ==
    \E i \in 0..Len(c) : \E j \in i..Len(c) :
        /\ SameModuloIndent(Slice(c, i, j), s)
        /\ Len(out) >= i + (Len(c) - j)
        /\ Slice(out, 0, i) = Slice(c, 0, i)
        /\ Slice(out, Len(out) - (Len(c) - j), Len(out)) = Slice(c, j, Len(c))

\* C4 (as claimed, for a patch that is applied): when the search snippet
\* occurs in the content with other leading whitespace on its lines and the
\* line-stripped or regex-fuzzy strategy applies the patch, everything outside
\* the occurrence is unchanged, the text before it on its first line and
\* after it on its last line included.
C4_ReindentedOccurrenceFrameKept ==
    \A c \in Calls :
        (/\ c.patch.mode = "replace"
         /\ c.via \in {"line-stripped", "regex-fuzzy"}
         /\ \E i \in 0..Len(c.before) : \E j \in i..Len(c.before) :
               SameModuloIndent(Slice(c.before, i, j), Strip(c.patch.search)))
        => FrameKept(c.before, Strip(c.patch.search), c.after)

\* --------------------------------------------- advanced_apply_patch: modes
\* C13 (as claimed, for an exact match): when the call finds the trimmed
\* search snippet verbatim at offset i, a replace patch returns the content
\* with the snippet replaced by the trimmed replacement, an insert_after patch
\* returns it with a newline and the replacement added after the snippet, and
\* an insert_before patch with the replacement and a newline added before the
\* snippet, the snippet kept in both.
C13_EditFollowsMode ==
    \A c \in Calls :
        c.via = "exact"
        => LET S == Strip(c.patch.search)
               R == Strip(c.patch.replace)
               i == Find(c.before, S)
               head == Slice(c.before, 0, i)
               tail == Slice(c.before, i + Len(S), Len(c.before))
           IN CASE c.patch.mode = "insert_after" ->
                     c.after = head \o S \o <<NL>> \o R \o tail
                [] c.patch.mode = "insert_before" ->
                     c.after = head \o R \o <<NL>> \o S \o tail
                [] OTHER -> c.after = head \o R \o tail

\* ------------------------------------------------------ blank search text
\* C14 (as claimed): for a search text that is empty or only whitespace,
\* fuzzy_find returns None, and advanced_apply_patch reports failure and
\* returns the content unchanged.
C14_BlankSearchNeverMatches ==
    Strip(patch.search) = <<>>
    => /\ Len(calls) >= 1 => calls[1].result = NotFound
       /\ Len(calls) >= 2
          => /\ ~calls[2].success /\ calls[2].via = "fail"
             /\ calls[2].after = calls[2].before

\* ------------------------------------ advanced_apply_patch: already applied
\* the positions of the unique lines of the replacement: the lines that are
\* not blank and, stripped, are no stripped line of the search text
UniquePositions(search, replace) ==
    LET RL == SplitNL(Strip(replace))
        SL == SplitNL(Strip(search))
    IN {i \in DOMAIN RL :
           /\ Strip(RL[i]) # <<>>
           /\ \A j \in DOMAIN SL : Strip(SL[j]) # Strip(RL[i])}

\* at least one unique line, and of the first three at least min(2, their
\* number) occur in the content
MostOfFirstThreePresent(c, search, replace) ==
    LET RL == SplitNL(Strip(replace))
        U == UniquePositions(search, replace)
        F == {i \in U : Cardinality({j \in U : j < i}) < 3}
        present == {i \in F : Occurs(c, Strip(RL[i]))}
    IN /\ U # {}
       /\ Cardinality(present) >= (IF Cardinality(F) >= 2 THEN 2 ELSE Cardinality(F))

\* C18: a call returns the content unchanged with success and one SKIP
\* logged exactly when the replacement has a unique line and, of its first
\* three unique lines, at least min(2, their number) occur in the content;
\* every other call goes on to search and logs an OK or a FAIL.
C18_AlreadyAppliedExactlyWhen ==
    /\ \A c \in Calls :
          IF MostOfFirstThreePresent(c.before, c.patch.search, c.patch.replace)
          THEN c.via = "skip" /\ c.success /\ c.after = c.before
          ELSE c.via \in {"exact", "line-stripped", "regex-fuzzy", "collapsed", "fail"}
    /\ counts.skip = Cardinality({k \in DOMAIN calls : calls[k].via = "skip"})

\* C18 witness: one call was skipped on two of the first three unique lines
\* of a replacement being present, and an earlier call of the same patch was
\* not, the content then holding one of the three.
C18_Witness ==
    /\ Len(calls) = 2
    /\ Cardinality(UniquePositions(patch.search, patch.replace)) >= 3
    /\ calls[1].via = "exact"
    /\ \E i \in UniquePositions(patch.search, patch.replace) :
          Occurs(calls[1].before, Strip(SplitNL(Strip(patch.replace))[i]))
    /\ calls[2].via = "skip" /\ calls[2].after = calls[2].before

\* ------------------------------------- advanced_apply_patch: the cascade
Strategies == <<"exact", "line-stripped", "regex-fuzzy", "collapsed">>

\* strategy n, tried on its own, finds the search text of the patch in c
StrategyFinds(n, c, p) ==
    CASE n = 1 -> Occurs(c, Strip(p.search))
      [] n = 2 -> LineStrippedMatch(c, Strip(p.search)) # <<>>
      [] n = 3 -> re_search(make_fuzzy_pattern(p.search), c) # <<-1, -1>>
      [] n = 4 -> CollapsedSpan(c, Strip(p.search)) # <<-1, -1>>

\* C19: a call that is not skipped as already applied is made by the first
\* of exact, line-stripped, regex-fuzzy, collapsed that finds the search
\* text, every earlier strategy having failed on it, and fails only when all
\* four do; every applied patch logs exactly one OK and every call one entry.
C19_FirstStrategyWins ==
    /\ \A c \in Calls :
          c.via # "skip"
          => LET finds == {n \in DOMAIN Strategies :
                              StrategyFinds(n, c.before, c.patch)}
             IN IF finds = {}
                THEN c.via = "fail" /\ ~c.success /\ c.after = c.before
                ELSE c.via = Strategies[Min(finds)] /\ c.success
    /\ counts.success =
          Cardinality({k \in DOMAIN calls :
                          \E n \in DOMAIN Strategies : calls[k].via = Strategies[n]})
    /\ counts.success + counts.skip + counts.fail = Len(calls)

\* C19 witness: a call was made by the collapsed strategy, the last of the
\* four, and the next call of the same patch found its work done.
C19_Witness ==
    /\ Len(calls) = 2
    /\ calls[1].via = "collapsed" /\ calls[1].after # calls[1].before
    /\ \A n \in 1..3 : ~StrategyFinds(n, calls[1].before, calls[1].patch)
    /\ calls[2].via = "skip"
    /\ counts.success = 1

\* ------------------------- advanced_apply_patch: the collapsed-whitespace span
\* the spans <<i, j>> of c that hold the snippet s with other whitespace
\* between its tokens
OccurrencesModuloSpace(c, s) ==
    {o \in (0..Len(c)) \X (0..Len(c)) :
        /\ o[1] < o[2]
        /\ c[o[1] + 1] \notin WS /\ c[o[2]] \notin WS
        /\ Collapse(Slice(c, o[1], o[2])) = Collapse(s)}

\* the offset of the end of the line that holds offset p of c
EndOfLine(c, p) ==
    IF FindFrom(c, <<NL>>, p) = -1 THEN Len(c) ELSE FindFrom(c, <<NL>>, p)

\* C20 (as claimed): an edit made by the collapsed-whitespace strategy
\* replaces the span from the start of the first token longer than three
\* characters of an occurrence of the snippet (modulo whitespace) in the
\* content to the end of the line that holds the last such token of that
\* occurrence.
C20_CollapsedSpanIsOccurrence ==
    \A c \in Calls :
        c.via = "collapsed"
        => \E o \in OccurrencesModuloSpace(c.before, Strip(c.patch.search)) :
              LET occ == Slice(c.before, o[1], o[2])
                  tokens == LongTokens(SplitWS(Strip(c.patch.search)))
                  first_start == o[1] + Find(occ, tokens[1])
                  last_end == o[1] + RFindFrom(occ, tokens[Len(tokens)], 0)
                              + Len(tokens[Len(tokens)])
              IN c.after = Splice(c.before, first_start,
                                  EndOfLine(c.before, last_end),
                                  Strip(c.patch.replace))

\* the text removed is the snippet modulo whitespace, followed at most by the
\* rest of its last line
SnippetToEndOfLine(removed, s) ==
    \E k \in 1..Len(removed) :
        /\ removed[1] \notin WS /\ removed[k] \notin WS
        /\ Collapse(Slice(removed, 0, k)) = Collapse(s)
        /\ \A n \in (k + 1)..Len(removed) : removed[n] # NL

\* the snippet begins and ends with a token longer than three characters
EdgeTokensLong(s) ==
    /\ SplitWS(s) # <<>>
    /\ Len(SplitWS(s)[1]) > TokenMinLen
    /\ Len(SplitWS(s)[Len(SplitWS(s))]) > TokenMinLen

\* C21 (as claimed, for a snippet that begins and ends with a distinctive
\* token): an edit made by the collapsed-whitespace strategy is the content
\* with one span replaced by the trimmed replacement, and the span removed is
\* the search snippet modulo whitespace, followed at most by the rest of its
\* last line; nothing else of the content is deleted.
C21_CollapsedRemovesOnlySnippet ==
    \A c \in Calls :
        (c.via = "collapsed" /\ EdgeTokensLong(Strip(c.patch.search)))
        => \E i \in 0..Len(c.before) : \E j \in i..Len(c.before) :
              /\ c.after = Splice(c.before, i, j, Strip(c.patch.replace))
              /\ SnippetToEndOfLine(Slice(c.before, i, j), Strip(c.patch.search))

\* ------------------------------------------------ main(): file operations
PatchesOf(path) ==
    LET i == CHOOSE k \in DOMAIN targets : targets[k].path = path
    IN targets[i].patches

Writes(path) == {i \in DOMAIN events : events[i].op = "write" /\ events[i].path = path}
Attempts(path) == {i \in DOMAIN events : events[i].op = "patch" /\ events[i].path = path}

\* the number of advanced_apply_patch calls made up to event i
CallsUpTo(i) == Cardinality({j \in 1..i : events[j].op = "patch"})

\* the call record of the patch attempt logged as event i
CallOf(i) == calls[CallsUpTo(i)]

\* a run that got a folder and has returned
RunComplete == pc = "done" /\ printed.verdict # ""

\* C8: a target file is never written before a backup holding its pre-run
\* content exists, and a complete run has made such a backup of every target
\* file that exists.
C8_BackupBeforeWrite ==
    /\ \A i \in DOMAIN events :
          events[i].op = "write"
          => /\ \E j \in 1..(i - 1) :
                   events[j] = Event("backup", events[i].path, 0, fs0[events[i].path])
             /\ bak[events[i].path] = fs0[events[i].path]
    /\ \A p \in Paths : fs[p] # fs0[p] => bak[p] = fs0[p]
    /\ RunComplete => \A p \in Paths : fs0[p] # NoFile => bak[p] = fs0[p]

\* C8 witness: a complete run wrote a file whose backup holds the old text.
C8_Witness ==
    /\ RunComplete
    /\ \E p \in Paths : Writes(p) # {} /\ fs[p] # fs0[p] /\ bak[p] = fs0[p]

\* C9: a target file is written only with a text that differs from the text
\* read from it, and a file whose patches were all skipped or failed is not
\* written.
C9_WriteOnlyIfChanged ==
    /\ \A i \in DOMAIN events :
          events[i].op = "write" => events[i].text # fs0[events[i].path]
    /\ \A p \in Paths :
          (\A i \in Attempts(p) : CallOf(i).via \in {"skip", "fail"})
          => Writes(p) = {} /\ fs[p] = fs0[p]
    /\ \A p \in Paths : Writes(p) = {} => fs[p] = fs0[p]

\* C9 witness: in a complete run one file had all its patches skipped or
\* failed and was left alone, another was patched and written.
C9_Witness ==
    /\ RunComplete
    /\ \E p \in Paths, q \in Paths :
          /\ Attempts(p) # {}
          /\ \A i \in Attempts(p) : CallOf(i).via \in {"skip", "fail"}
          /\ Writes(p) = {}
          /\ Writes(q) # {} /\ fs[q] # fs0[q]

\* C10: a target file is written at most once; the write directly follows the
\* attempts of all patches of the file's list, made in list order, the first
\* on the text read and each next one on the text the previous returned; the
\* text written is the last one returned; no other file is touched between
\* the read of the file and its write.
C10_SingleWriteAfterAllPatches ==
    \A i \in DOMAIN events :
        events[i].op = "write"
        => LET p == events[i].path
               ps == PatchesOf(p)
               n == Len(ps)
               first == i - n
           IN /\ Writes(p) = {i}
              /\ i >= n + 3
              /\ events[first - 2] = Event("read", p, 0, fs0[p])
              /\ events[first - 1] = Event("backup", p, 0, fs0[p])
              /\ \A k \in 1..n :
                    /\ events[first + k - 1].op = "patch"
                    /\ events[first + k - 1].path = p
                    /\ events[first + k - 1].n = k
                    /\ CallOf(first + k - 1).patch = ps[k]
                    /\ CallOf(first + k - 1).before =
                          (IF k = 1 THEN fs0[p] ELSE CallOf(first + k - 2).after)
                    /\ events[first + k - 1].text = CallOf(first + k - 1).after
              /\ events[i].text = CallOf(i - 1).after
              /\ \A j \in (i + 1)..Len(events) : events[j].path # p

\* C10 witness: a file with two patches was written after both were
\* attempted, and a later file was read after that write.
C10_Witness ==
    \E i \in DOMAIN events :
        /\ events[i].op = "write"
        /\ Len(PatchesOf(events[i].path)) = 2
        /\ CallOf(i - 2).via = "exact" /\ CallOf(i - 1).via = "skip"
        /\ \E j \in (i + 1)..Len(events) : events[j].op = "read"

\* ------------------------------------------------ main(): failed patches
Reads(path) == {i \in DOMAIN events : events[i].op = "read" /\ events[i].path = path}

\* C11: a patch that advanced_apply_patch fails returns the content unchanged;
\* the next patch of the file's list is attempted on that same content; and a
\* complete run has read every target file that exists and attempted every
\* patch of it, whatever failed before.
C11_FailureDoesNotAbort ==
    /\ \A c \in Calls : c.via = "fail" => (~c.success /\ c.after = c.before)
    /\ \A i \in DOMAIN events :
          (/\ events[i].op = "patch"
           /\ CallOf(i).via = "fail"
           /\ events[i].n < Len(PatchesOf(events[i].path)))
          => IF i = Len(events)
             THEN /\ pc = "patch"
                  /\ targets[fidx].path = events[i].path
                  /\ pidx = events[i].n + 1
                  /\ content = CallOf(i).before
             ELSE /\ events[i + 1].op = "patch"
                  /\ events[i + 1].path = events[i].path
                  /\ events[i + 1].n = events[i].n + 1
                  /\ CallOf(i + 1).before = CallOf(i).before
    /\ RunComplete
       => \A p \in Paths :
             fs0[p] # NoFile
             => /\ Reads(p) # {}
                /\ Cardinality(Attempts(p)) = Len(PatchesOf(p))

\* C11 witness: in a complete run the first of two patches of a file failed,
\* the second was attempted on the same text, and a later file was patched
\* and written.
C11_Witness ==
    /\ RunComplete
    /\ \E i \in DOMAIN events :
          /\ events[i].op = "patch" /\ events[i].n = 1
          /\ CallOf(i).via = "fail"
          /\ i < Len(events)
          /\ events[i + 1].op = "patch" /\ events[i + 1].n = 2
          /\ CallOf(i + 1).before = CallOf(i).before
          /\ \E j \in (i + 2)..Len(events) :
                events[j].op = "write" /\ events[j].path # events[i].path

\* ------------------------------------------------- main(): missing files
Entries(op, path) == {i \in DOMAIN events : events[i].op = op /\ events[i].path = path}

\* nothing was read from, backed up for or written to the path
Untouched(path) ==
    /\ Reads(path) = {} /\ Attempts(path) = {} /\ Writes(path) = {}
    /\ Entries("backup", path) = {}
    /\ fs[path] = fs0[path] /\ bak[path] = NoFile

\* one warning for the file and one SKIP for each patch of its list
WarnedAndSkipped(path) ==
    /\ Cardinality(Entries("warn", path)) = 1
    /\ Cardinality(Entries("skip", path)) = Len(PatchesOf(path))
    /\ \A k \in 1..Len(PatchesOf(path)) :
          \E i \in Entries("skip", path) : events[i].n = k

OthersProcessed ==
    \A q \in Paths :
        fs0[q] # NoFile
        => Reads(q) # {} /\ Cardinality(Attempts(q)) = Len(PatchesOf(q))

MainCanStep ==
    \/ pc \in {"start", "validate", "backup", "summary", "savelog"}
    \/ pc = "read" /\ fidx \in DOMAIN targets
    \/ /\ pc = "patch" /\ fidx \in DOMAIN targets
       /\ pidx \in 1..(Len(targets[fidx].patches) + 1)

\* C17: main is never stuck before its return, and returns with status zero;
\* when a folder was chosen it has printed the summary before, and the
\* failures (one per failed patch, three for a missing index.html) show in the
\* printed failure count and verdict only.
C17_FailuresNotEscalated ==
    /\ pc # "done" => (rc = NoStatus /\ MainCanStep)
    /\ pc = "done"
       => /\ rc = 0
          /\ events # <<>>
             => /\ RunComplete
                /\ printed.counts.fail =
                      FailsLogged + (IF fs0[TargetPaths[1]] = NoFile THEN 3 ELSE 0)
                /\ printed.verdict = (IF printed.counts.fail > 0
                                      THEN "SOME PATCHES FAILED"
                                      ELSE "ALL PATCHES APPLIED SUCCESSFULLY")

\* C17 witness: a run in which a file was missing, a patch failed and
\* another was applied printed a nonzero failure count and returned zero.
C17_Witness ==
    /\ RunComplete /\ rc = 0
    /\ printed.counts.fail > 0 /\ printed.verdict = "SOME PATCHES FAILED"
    /\ \E p \in Paths : fs0[p] = NoFile
    /\ \E c \in Calls : c.via = "fail"
    /\ \E c \in Calls : c.via = "exact"

\* ------------------------------------------------------ the Layout Fixer
\* the number of places where the lexemes of block occur in doc
CountBlocks(doc, block) == Cardinality({i \in 0..Len(doc) : StartsAt(doc, block, i)})

Markers == {PATCH_MARKER_CSS_BEGIN, PATCH_MARKER_CSS_END,
            PATCH_MARKER_JS_BEGIN, PATCH_MARKER_JS_END}
MarkerFree(doc) == \A i \in DOMAIN doc : doc[i] \notin Markers

\* -------------------------------------------- the Layout Fixer: placement
HasStyleClose(doc) == \E i \in DOMAIN doc : IsStyleClose(doc[i])
HasBodyClose(doc) == \E i \in DOMAIN doc : IsBodyClose(doc[i])

CssInsertion == <<NL, NL>> \o CSS_PATCH \o <<NL, NL>>
JsInsertion == <<NL, NL, "<script>", NL>> \o JS_PATCH \o <<NL, "</script>", NL, NL>>

\* block ends right where the lexeme at 0-based offset at begins
EndsAt(doc, block, at) ==
    /\ at >= Len(block)
    /\ Slice(doc, at - Len(block), at) = block

\* C15: in every document a run wrote, the first closing style tag (in any
\* letter case) is directly preceded by the CSS patch block with its newline
\* padding, and the first closing body tag by the JS patch block in its
\* script element with its newline padding.
C15_BlocksDirectlyBeforeTags ==
    \A k \in DOMAIN calls :
        calls[k].rc = 0
        => LET doc == calls[k].written
           IN /\ \E i \in DOMAIN events :
                    events[i] = Event("write", calls[k].out, k, doc)
              /\ HasStyleClose(doc) /\ HasBodyClose(doc)
              /\ EndsAt(doc, CssInsertion, _find_style_close_index(doc))
              /\ EndsAt(doc, JsInsertion, _find_body_close_index(doc))

\* C15 witness: a run accepted an input whose closing style tag is written
\* in capitals and comes after the closing body tag, and wrote both blocks.
C15_Witness ==
    \E k \in DOMAIN calls :
        /\ calls[k].rc = 0
        /\ \E i \in DOMAIN calls[k].raw : \E j \in DOMAIN calls[k].raw :
              /\ calls[k].raw[i] = "</STYLE >" /\ calls[k].raw[j] = "</body>"
              /\ j < i
        /\ CountBlocks(calls[k].written, CSS_PATCH) = 1
        /\ CountBlocks(calls[k].written, JS_PATCH) = 1

\* C3 (as claimed): when the Layout Fixer is run on a file an earlier run
\* produced (from an input without markers, beside that input), the file it
\* writes holds exactly one injected CSS block and exactly one injected JS
\* block.
C3_RerunKeepsOneBlockEach ==
    \A i \in DOMAIN calls : \A j \in DOMAIN calls :
        (/\ i < j
         /\ calls[i].rc = 0 /\ calls[j].rc = 0
         /\ MarkerFree(calls[i].raw)
         /\ calls[i].out # calls[i].inp
         /\ calls[j].inp = calls[i].out
         /\ calls[j].raw = calls[i].written)
        => /\ CountBlocks(calls[j].written, CSS_PATCH) = 1
           /\ CountBlocks(calls[j].written, JS_PATCH) = 1

\* the input, old patch blocks stripped, passes the three checks of patch_html
PassesChecks(raw) ==
    LET stripped == _remove_existing_patch(raw)
        with_css == InsertCss(stripped, _find_style_close_index(stripped))
        assembled == InsertJs(with_css, _find_body_close_index(with_css))
    IN /\ HasStyleClose(stripped)
       /\ HasBodyClose(stripped)
       /\ HasHtmlClose(assembled)

RunWrites(k) == {i \in DOMAIN events : events[i].op = "write" /\ events[i].n = k}

\* C6: a run whose input, old patch blocks stripped, has no </style>, has no
\* </body>, or assembles to a document without </html> writes no file and
\* returns a nonzero status; no file changes before the three checks have
\* passed.
C6_NoWriteUnlessChecksPass ==
    /\ \A k \in DOMAIN calls :
          (calls[k].raw # NoFile /\ ~PassesChecks(calls[k].raw))
          => /\ calls[k].rc # 0
             /\ calls[k].written = NoFile
             /\ RunWrites(k) = {}
    /\ pc \in {"lf_read", "lf_css", "lf_js", "lf_sanity", "lf_write"}
       => fs = fs0 /\ RunWrites(Len(calls) + 1) = {}
    /\ pc = "lf_write" => PassesChecks(original_content)
    /\ (pc = "lf_exit" /\ rc # 0) => fs = fs0

\* C6 witness: a run ended with status 1 and wrote nothing because its
\* input, which has </style> and </body>, has no </html>.
C6_Witness ==
    /\ pc = "lf_exit" /\ rc = 1
    /\ fs = fs0 /\ events = <<>>
    /\ \E k \in DOMAIN calls :
          /\ calls[k].raw # NoFile
          /\ HasStyleClose(calls[k].raw) /\ HasBodyClose(calls[k].raw)
          /\ ~HasHtmlClose(calls[k].raw)
          /\ calls[k].rc = 1 /\ calls[k].written = NoFile

\* ------------------------------------------ the Layout Fixer: exit status
\* C16: a run returns 0 exactly when it wrote the patched file, 2 when its
\* input file does not exist (and then writes nothing), 1 exactly when
\* patch_html raised, that is when the input exists and fails one of its
\* checks; the status main returns is the one of the run just ended.
C16_ExitStatus ==
    /\ \A k \in DOMAIN calls :
          /\ calls[k].rc \in {0, 1, 2}
          /\ calls[k].rc = 0 <=> RunWrites(k) # {}
          /\ calls[k].rc = 0 <=> calls[k].written # NoFile
          /\ calls[k].raw = NoFile <=> calls[k].rc = 2
          /\ calls[k].rc = 1
             <=> (calls[k].raw # NoFile /\ ~PassesChecks(calls[k].raw))
    /\ pc = "lf_exit" => (Len(calls) >= 1 /\ rc = calls[Len(calls)].rc)
    /\ (pc = "lf_exit" /\ rc # 0) => fs = fs0
    /\ pc # "lf_exit" => rc = NoStatus

\* C16 witness: a run on a missing input returned 2 and wrote nothing, and
\* the next run, on an input that passes the checks, wrote a file and
\* returned 0.
C16_Witness ==
    /\ pc = "lf_exit" /\ rc = 0
    /\ Len(calls) = 2
    /\ calls[1].rc = 2 /\ calls[1].inp = MissingPath /\ RunWrites(1) = {}
    /\ calls[2].rc = 0 /\ RunWrites(2) # {}

\* C7 (as claimed): when a run has ended, its input file holds what it held
\* before the run, and a patched document was written to another path, where
\* no file was before.
C7_InputNeverMutated ==
    pc = "lf_exit"
    => /\ fs[args.inp] = fs0[args.inp]
       /\ rc = 0 => (args.out # args.inp /\ fs0[args.out] = NoFile)

\* ------------------------------------ main(): the hardcoded lists, fresh files
\* the file held every search snippet of its list verbatim before the run, and
\* none of the replacement texts
HoldsSnippetsOnly(path) ==
    /\ fs0[path] # NoFile
    /\ \A k \in DOMAIN PatchesOf(path) :
          /\ Contains(fs0[path], PatchesOf(path)[k].search)
          /\ ~Contains(fs0[path], Strip(PatchesOf(path)[k].replace))

\* the call replaced its snippet: not skipped as already applied, not failed
Applied(c) == c.success /\ c.via \notin {"skip", "fail"} /\ c.after # c.before

\* C22 (as claimed): when a target file holds every search snippet of its
\* hardcoded list verbatim and none of the replacements, every patch of the
\* list that is attempted on it is applied (none is skipped as already
\* applied, none fails), and a complete run has attempted them all.
C22_FreshFileGetsEveryPatch ==
    \A path \in Paths :
        HoldsSnippetsOnly(path)
        => /\ \A i \in Attempts(path) : Applied(CallOf(i))
           /\ RunComplete
              => {events[i].n : i \in Attempts(path)} = DOMAIN PatchesOf(path)

\* ------------------------------------------------------ main(): the summary
AllApplied == "ALL PATCHES APPLIED SUCCESSFULLY"
SomeFailed == "SOME PATCHES FAILED"

\* a target file that did not exist when the run began
SomeFileMissing == \E path \in Paths : fs0[path] = NoFile

\* a patch that advanced_apply_patch could not apply
SomePatchFailed == \E k \in DOMAIN calls : calls[k].via = "fail"

\* C23 (as claimed): the summary says ALL PATCHES APPLIED SUCCESSFULLY only
\* when no target file was missing and no patch failed, and says SOME PATCHES
\* FAILED when a target file was missing or a patch was not applied.
C23_VerdictTellsWhetherAllApplied ==
    printed.verdict # ""
    => /\ printed.verdict = AllApplied
          => ~SomeFileMissing /\ ~SomePatchFailed
       /\ (SomeFileMissing \/ SomePatchFailed)
          => printed.verdict = SomeFailed

\* the numbers of patches advanced_apply_patch applied, skipped and failed
AppliedCalls == {k \in DOMAIN calls : calls[k].via \notin {"skip", "fail"}}
SkippedCalls == {k \in DOMAIN calls : calls[k].via = "skip"}
FailedCalls == {k \in DOMAIN calls : calls[k].via = "fail"}

\* the patches logged as skipped because their file is missing
SkippedForMissingFile == {i \in DOMAIN events : events[i].op = "skip"}

\* C24 (as claimed): the counters the summary prints are the numbers of
\* patches applied, of patches skipped (already applied or file missing) and
\* of patches whose search failed.
C24_CountersCountPatches ==
    printed.verdict # ""
    => /\ printed.counts.success = Cardinality(AppliedCalls)
       /\ printed.counts.skip
            = Cardinality(SkippedCalls) + Cardinality(SkippedForMissingFile)
       /\ printed.counts.fail = Cardinality(FailedCalls)

\* ------------------------------------------ the Layout Fixer: frame effect
\* doc without the first place where the lexemes of block occur
RemoveFirst(doc, block) ==
    LET at == Find(doc, block)
    IN IF at = -1 THEN doc
       ELSE Slice(doc, 0, at) \o Slice(doc, at + Len(block), Len(doc))

\* C25 (as claimed): for an input without patch markers that a run accepts,
\* the file written is the input with the padded CSS block and the padded
\* script block inserted: taking the two inserted texts out of the output
\* gives back the input, lexeme for lexeme.
C25_OutputIsInputPlusTwoInsertions ==
    \A k \in DOMAIN calls :
        (calls[k].rc = 0 /\ MarkerFree(calls[k].raw))
        => /\ Occurs(calls[k].written, CssInsertion)
           /\ Occurs(calls[k].written, JsInsertion)
           /\ RemoveFirst(RemoveFirst(calls[k].written, JsInsertion), CssInsertion)
                = calls[k].raw

====
